---- MODULE Spec2Model ----
(***************************************************************************)
(* Commit graph engine (eden/mononoke/.../commit_graph/src/lib.rs).        *)
(* The stored graph is a map from ChangesetId to ChangesetEdges; queries   *)
(* build ChangesetFrontiers (generation -> set of ids) and lower them.     *)
(* ChangesetIds are the numbers 1..MaxNodes, named in order of first       *)
(* insertion; the engine only compares, hashes and sorts them.             *)
(***************************************************************************)
EXTENDS Integers, Sequences, FiniteSets, TLC

VARIABLES storage, res, adding, added, query, errors

vars == <<storage, res, adding, added, query, errors>>

\* the calls in flight: add calls between their two Storage calls, the add
\* calls that have returned, and an is_ancestor call between its reads
inflight == <<adding, added, query>>

\* ---------------------------------------------------------------- bounds
MaxNodes == 4
MaxParents == 2
MaxHeads == 2
MaxCommon == 1
MaxSliceSize == 2
MaxTasks == 2
MaxErrors == 2
MaxErrorSize == 4

MaxAwaitedNodes == 3

Ids == 1..MaxNodes

\* ---------------------------------------------------------------- helpers
Max(S) == CHOOSE x \in S : \A y \in S : y <= x

Min(S) == CHOOSE x \in S : \A y \in S : x <= y

Range(s) == {s[i] : i \in DOMAIN s}

\* ChangesetParents: the first parent, then the other parents; the ids are
\* distinct and the parents after the first are listed in ascending order
\* (their order is used by no operation)
ParentLists ==
    UNION {{s \in [1..n -> Ids] :
              \A i, j \in 1..n : i < j => (s[i] # s[j] /\ (i > 1 => s[i] < s[j]))}
           : n \in 0..MaxParents}

\* ---------------------------------------------------- storage capability
Present == DOMAIN storage

fetch_edges(cs_id) ==
    IF cs_id \in Present THEN {storage[cs_id]} ELSE {}

\* fetch_many_edges: missing ids are absent from the returned map
fetch_many_edges(cs_ids) ==
    [c \in (cs_ids \cap Present) |-> storage[c]]

\* fetch_many_edges_required: error on any missing id
fetch_many_edges_required_fails(cs_ids) == ~(cs_ids \subseteq Present)

\* Storage.add: false if the id is already present, the stored record is kept
storage_add(st, edges) ==
    IF edges.node.cs_id \in DOMAIN st
    THEN [inserted |-> FALSE, st |-> st]
    ELSE [inserted |-> TRUE,
          st |-> [c \in DOMAIN st \cup {edges.node.cs_id} |->
                    IF c = edges.node.cs_id THEN edges ELSE st[c]]]

\* ------------------------------------------------------------ build_edges
\* the options for skip_tree_skew_ancestor: none for a root, otherwise the
\* first parent or the first parent's own skew ancestor
calc_skew_ancestor(parents, parent_edges) ==
    IF Len(parents) = 0 THEN {{}}
    ELSE {{parent_edges[parents[1]].node}}
         \cup (IF parent_edges[parents[1]].skip_tree_skew_ancestor # {}
               THEN {parent_edges[parents[1]].skip_tree_skew_ancestor}
               ELSE {})

build_edges(cs_id, parents, parent_edges, skew) ==
    [node |-> [cs_id |-> cs_id,
               generation |->
                 1 + (IF Len(parents) = 0 THEN 0
                      ELSE Max({parent_edges[p].node.generation
                                : p \in Range(parents)}))],
     parents |-> [i \in 1..Len(parents) |-> parent_edges[parents[i]].node],
     skip_tree_skew_ancestor |-> skew]

\* -------------------------------------------------------------------- add
\* add answering true whatever Storage.add returned
add_always_true(cs_id, parents) ==
    /\ res.op = "none"
    /\ IF fetch_many_edges_required_fails(Range(parents))
       THEN /\ res' = [op |-> "add", cs_id |-> cs_id, parents |-> parents,
                       err |-> TRUE, val |-> FALSE]
            /\ UNCHANGED storage
       ELSE \E skew \in calc_skew_ancestor(parents,
                              fetch_many_edges(Range(parents))) :
              LET parent_edges == fetch_many_edges(Range(parents))
                  r == storage_add(storage,
                         build_edges(cs_id, parents, parent_edges, skew))
              IN /\ storage' = r.st
                 /\ res' = [op |-> "add", cs_id |-> cs_id,
                            parents |-> parents,
                            err |-> FALSE, val |-> TRUE]

\* add building the record from the parents it finds and skipping the others
add_missing_parents_skipped(cs_id, parents) ==
    /\ res.op = "none"
    /\ LET found == SelectSeq(parents, LAMBDA p : p \in Present)
           parent_edges == fetch_many_edges(Range(found))
       IN \E skew \in calc_skew_ancestor(found, parent_edges) :
            LET r == storage_add(storage,
                       build_edges(cs_id, found, parent_edges, skew))
            IN /\ storage' = r.st
               /\ res' = [op |-> "add", cs_id |-> cs_id,
                          parents |-> parents,
                          err |-> FALSE, val |-> r.inserted]

add(cs_id, parents) ==
    /\ res.op = "none"
    /\ IF fetch_many_edges_required_fails(Range(parents))
       THEN /\ res' = [op |-> "add", cs_id |-> cs_id, parents |-> parents,
                       err |-> TRUE, val |-> FALSE]
            /\ UNCHANGED storage
       ELSE \E skew \in calc_skew_ancestor(parents,
                              fetch_many_edges(Range(parents))) :
              LET parent_edges == fetch_many_edges(Range(parents))
                  r == storage_add(storage,
                         build_edges(cs_id, parents, parent_edges, skew))
              IN /\ storage' = r.st
                 /\ res' = [op |-> "add", cs_id |-> cs_id,
                            parents |-> parents,
                            err |-> FALSE, val |-> r.inserted]

\* a ChangesetId is the content hash of a changeset and covers its parents:
\* a stored id is only ever added again with the parents it was stored with
ParentListsOf(cs_id) ==
    IF cs_id \in Present
    THEN {[i \in 1..Len(storage[cs_id].parents) |->
             storage[cs_id].parents[i].cs_id]}
    ELSE ParentLists

Add ==
    /\ \E cs_id \in 1..Min({Cardinality(Present) + 1, MaxNodes}) :
         \E parents \in ParentListsOf(cs_id) : add(cs_id, parents)
    /\ UNCHANGED <<inflight, errors>>

\* ------------------------------------------------------ ChangesetFrontier
\* a map from generation to a set of ids
EmptyFrontier == <<>>

new_single(cs_id, generation) == [g \in {generation} |-> {cs_id}]

\* entry(generation).or_default().insert(cs_id)
entry_insert(F, generation, cs_id) ==
    [g \in DOMAIN F \cup {generation} |->
       IF g \in DOMAIN F
       THEN (IF g = generation THEN F[g] \cup {cs_id} ELSE F[g])
       ELSE {cs_id}]

is_empty(F) == DOMAIN F = {}

\* last_key_value / pop_last: the bucket of the highest generation
last_key(F) == Max(DOMAIN F)

first_key(F) == Min(DOMAIN F)

without_key(F, k) == [g \in DOMAIN F \ {k} |-> F[g]]

changesets(F) == UNION {F[g] : g \in DOMAIN F}

highest_generation_contains(F, cs_id, target_gen) ==
    /\ target_gen \in DOMAIN F
    /\ cs_id \in F[target_gen]

highest_generation_intersection(F, other) ==
    IF is_empty(F) \/ is_empty(other) THEN {}
    ELSE IF last_key(F) = last_key(other)
         THEN F[last_key(F)] \cap other[last_key(other)]
         ELSE {}

is_disjoint(F, other) ==
    \A g \in DOMAIN F \cap DOMAIN other : F[g] \cap other[g] = {}

\* the (id, generation) nodes of the parents of a set of stored ids
ParentNodes(cs_ids) ==
    UNION {Range(storage[c].parents) : c \in cs_ids}

RECURSIVE insert_nodes(_, _)
insert_nodes(F, nodes) ==
    IF nodes = {} THEN F
    ELSE LET n == CHOOSE x \in nodes : TRUE
         IN insert_nodes(entry_insert(F, n.generation, n.cs_id), nodes \ {n})

\* ----------------------------------------------------- lowering primitives
single_frontier(cs_id) == new_single(cs_id, storage[cs_id].node.generation)

frontier(cs_ids) ==
    insert_nodes(EmptyFrontier, {storage[c].node : c \in cs_ids})

\* pop the topmost bucket and re-insert its nodes' parents by generation
lower_frontier_highest_generation(F) ==
    IF is_empty(F) THEN F
    ELSE insert_nodes(without_key(F, last_key(F)),
                      ParentNodes(F[last_key(F)]))

\* lowering that discards the buckets above target_gen
lower_frontier_discarding(F, target_gen) ==
    [g \in {k \in DOMAIN F : k <= target_gen} |-> F[g]]

RECURSIVE lower_frontier(_, _)
lower_frontier(F, target_gen) ==
    IF is_empty(F) \/ last_key(F) <= target_gen THEN F
    ELSE lower_frontier(lower_frontier_highest_generation(F), target_gen)

\* one wave of lowering with a monotonic property P (the set of ids where it
\* holds): popped nodes satisfying P are emitted and not expanded
lower_frontier_step(F, P) ==
    LET top == F[last_key(F)]
    IN [emitted |-> top \cap P,
        F |-> insert_nodes(without_key(F, last_key(F)),
                           ParentNodes(top \ P))]

\* append a chunk of ids produced in unspecified order to a Vec or stream
extend(out, chunk) == IF chunk = {} THEN out ELSE Append(out, chunk)

\* ------------------------------------------------ ancestors_frontier_with
\* the accumulation loop assigning each extension instead of extending
RECURSIVE ancestors_frontier_loop_assign(_, _, _)
ancestors_frontier_loop_assign(F, P, ancestors_frontier) ==
    IF is_empty(F) THEN ancestors_frontier
    ELSE LET step == lower_frontier_step(F, P)
         IN ancestors_frontier_loop_assign(step.F, P,
                extend(<<>>, step.emitted))

RECURSIVE ancestors_frontier_loop(_, _, _)
ancestors_frontier_loop(F, P, ancestors_frontier) ==
    IF is_empty(F) THEN ancestors_frontier
    ELSE LET step == lower_frontier_step(F, P)
         IN ancestors_frontier_loop(step.F, P,
                extend(ancestors_frontier, step.emitted))

\* ancestors_frontier_with passing a property that holds everywhere
ancestors_frontier_with_any(heads, P) ==
    IF fetch_many_edges_required_fails(heads)
    THEN [err |-> TRUE, val |-> <<>>]
    ELSE [err |-> FALSE,
          val |-> ancestors_frontier_loop(frontier(heads), Present, <<>>)]

ancestors_frontier_with(heads, P) ==
    IF fetch_many_edges_required_fails(heads)
    THEN [err |-> TRUE, val |-> <<>>]
    ELSE [err |-> FALSE,
          val |-> ancestors_frontier_loop(frontier(heads), P, <<>>)]

\* --------------------------------------- ancestors_difference_stream_with
\* the stream step testing exclusion against the common frontier as it was
\* before lowering
RECURSIVE ancestors_difference_unfold_stale_common(_, _, _, _)
ancestors_difference_unfold_stale_common(heads, common, P, out) ==
    IF is_empty(heads) THEN out
    ELSE LET generation == last_key(heads)
             cs_ids == heads[generation]
             cs_ids_not_excluded ==
                 {c \in cs_ids :
                    /\ ~highest_generation_contains(common, c, generation)
                    /\ c \notin P}
             all_edges == fetch_many_edges(cs_ids_not_excluded)
         IN ancestors_difference_unfold_stale_common(
                insert_nodes(without_key(heads, generation),
                             ParentNodes(DOMAIN all_edges)),
                common, P, extend(out, cs_ids_not_excluded))

\* the stream step inserting each parent one generation below the popped
\* bucket instead of at the parent's own generation
RECURSIVE ancestors_difference_unfold_parents_below(_, _, _, _)
ancestors_difference_unfold_parents_below(heads, common, P, out) ==
    IF is_empty(heads) THEN out
    ELSE LET generation == last_key(heads)
             cs_ids == heads[generation]
             lowered == lower_frontier(common, generation)
             cs_ids_not_excluded ==
                 {c \in cs_ids :
                    /\ ~highest_generation_contains(lowered, c, generation)
                    /\ c \notin P}
             all_edges == fetch_many_edges(cs_ids_not_excluded)
         IN ancestors_difference_unfold_parents_below(
                insert_nodes(without_key(heads, generation),
                             {[cs_id |-> n.cs_id, generation |-> generation - 1]
                              : n \in ParentNodes(DOMAIN all_edges)}),
                lowered, P, extend(out, cs_ids_not_excluded))

\* the stream step popping the lowest bucket (pop_first) instead of the
\* highest
RECURSIVE ancestors_difference_unfold_pop_first(_, _, _, _)
ancestors_difference_unfold_pop_first(heads, common, P, out) ==
    IF is_empty(heads) THEN out
    ELSE LET generation == first_key(heads)
             cs_ids == heads[generation]
             lowered == lower_frontier(common, generation)
             cs_ids_not_excluded ==
                 {c \in cs_ids :
                    /\ ~highest_generation_contains(lowered, c, generation)
                    /\ c \notin P}
             all_edges == fetch_many_edges(cs_ids_not_excluded)
         IN ancestors_difference_unfold_pop_first(
                insert_nodes(without_key(heads, generation),
                             ParentNodes(DOMAIN all_edges)),
                lowered, P, extend(out, cs_ids_not_excluded))

RECURSIVE ancestors_difference_unfold(_, _, _, _)
ancestors_difference_unfold(heads, common, P, out) ==
    IF is_empty(heads) THEN out
    ELSE LET generation == last_key(heads)
             cs_ids == heads[generation]
             lowered == lower_frontier(common, generation)
             cs_ids_not_excluded ==
                 {c \in cs_ids :
                    /\ ~highest_generation_contains(lowered, c, generation)
                    /\ c \notin P}
             all_edges == fetch_many_edges(cs_ids_not_excluded)
         IN ancestors_difference_unfold(
                insert_nodes(without_key(heads, generation),
                             ParentNodes(DOMAIN all_edges)),
                lowered, P, extend(out, cs_ids_not_excluded))

\* ancestors_difference_stream_with building its frontiers from the ids it
\* finds (fetch_many_edges in place of the required fetch)
ancestors_difference_stream_with_found(heads, common, P) ==
    [err |-> FALSE,
     val |-> ancestors_difference_unfold(frontier(heads \cap Present),
                                         frontier(common \cap Present),
                                         P, <<>>)]

ancestors_difference_stream_with(heads, common, P) ==
    IF fetch_many_edges_required_fails(heads)
       \/ fetch_many_edges_required_fails(common)
    THEN [err |-> TRUE, val |-> <<>>]
    ELSE [err |-> FALSE,
          val |-> ancestors_difference_unfold(frontier(heads),
                                              frontier(common), P, <<>>)]

\* ----------------------------------------------------------- range_stream
\* downward discovery: the children map as a set of
\* <<parent, child, generation of child>> and the reached_start flag
\* downward discovery noting the start only in the buckets above its
\* generation
RECURSIVE range_discover_above(_, _, _, _, _)
range_discover_above(F, start_id, start_generation, children, reached_start) ==
    IF is_empty(F)
    THEN [children |-> children, reached_start |-> reached_start]
    ELSE LET gen == last_key(F)
             cs_ids == F[gen]
             popped == without_key(F, gen)
         IN IF gen > start_generation
            THEN range_discover_above(
                   insert_nodes(popped, ParentNodes(cs_ids)),
                   start_id, start_generation,
                   children \cup
                     {<<storage[c].parents[i].cs_id, storage[c].node.cs_id,
                        storage[c].node.generation>>
                      : <<c, i>> \in {x \in cs_ids \X (1..MaxNodes) :
                                        x[2] <= Len(storage[x[1]].parents)}},
                   reached_start \/ start_id \in cs_ids)
            ELSE range_discover_above(popped, start_id,
                                              start_generation, children,
                                              reached_start)

RECURSIVE range_discover(_, _, _, _, _)
range_discover(F, start_id, start_generation, children, reached_start) ==
    IF is_empty(F)
    THEN [children |-> children, reached_start |-> reached_start]
    ELSE LET gen == last_key(F)
             cs_ids == F[gen]
             popped == without_key(F, gen)
         IN IF gen > start_generation
            THEN range_discover(
                   insert_nodes(popped, ParentNodes(cs_ids)),
                   start_id, start_generation,
                   children \cup
                     {<<storage[c].parents[i].cs_id, storage[c].node.cs_id,
                        storage[c].node.generation>>
                      : <<c, i>> \in {x \in cs_ids \X (1..MaxNodes) :
                                        x[2] <= Len(storage[x[1]].parents)}},
                   reached_start \/ start_id \in cs_ids)
            ELSE range_discover(popped, start_id, start_generation, children,
                                reached_start \/ start_id \in cs_ids)

\* the upward step inserting each child one generation above the popped
\* bucket instead of at the child's own generation
RECURSIVE range_unfold_children_above(_, _, _)
range_unfold_children_above(upwards_frontier, children, out) ==
    IF is_empty(upwards_frontier) THEN out
    ELSE LET gen == first_key(upwards_frontier)
             cs_ids == upwards_frontier[gen]
         IN range_unfold_children_above(
              insert_nodes(without_key(upwards_frontier, gen),
                           {[cs_id |-> t[2], generation |-> gen + 1]
                            : t \in {x \in children : x[1] \in cs_ids}}),
              children, extend(out, cs_ids))

RECURSIVE range_unfold(_, _, _)
range_unfold(upwards_frontier, children, out) ==
    IF is_empty(upwards_frontier) THEN out
    ELSE LET cs_ids == upwards_frontier[first_key(upwards_frontier)]
         IN range_unfold(
              insert_nodes(without_key(upwards_frontier,
                                       first_key(upwards_frontier)),
                           {[cs_id |-> t[2], generation |-> t[3]]
                            : t \in {x \in children : x[1] \in cs_ids}}),
              children, extend(out, cs_ids))

\* range_stream without the reached_start test
range_stream_unchecked(start_id, end_id) ==
    IF start_id \notin Present \/ end_id \notin Present
    THEN [err |-> TRUE, val |-> <<>>]
    ELSE LET start_generation == storage[start_id].node.generation
             d == range_discover(single_frontier(end_id), start_id,
                                 start_generation, {}, FALSE)
         IN [err |-> FALSE,
             val |-> range_unfold(new_single(start_id, start_generation),
                                  d.children, <<>>)]

range_stream(start_id, end_id) ==
    IF start_id \notin Present \/ end_id \notin Present
    THEN [err |-> TRUE, val |-> <<>>]
    ELSE LET start_generation == storage[start_id].node.generation
             d == range_discover(single_frontier(end_id), start_id,
                                 start_generation, {}, FALSE)
         IN [err |-> FALSE,
             val |-> IF ~d.reached_start THEN <<>>
                     ELSE range_unfold(new_single(start_id, start_generation),
                                       d.children, <<>>)]

\* ------------------------------------------------------------ common_base
RECURSIVE sort(_)
sort(S) == IF S = {} THEN <<>> ELSE <<Min(S)>> \o sort(S \ {Min(S)})

\* common_base taking the skip tree jump without the disjointness test
RECURSIVE common_base_loop_always_jump(_, _)
common_base_loop_always_jump(u_frontier, v_frontier) ==
    IF is_empty(u_frontier) THEN {<<>>}
    ELSE
      LET u_gen == last_key(u_frontier)
          v_low == lower_frontier(v_frontier, u_gen)
          intersection == highest_generation_intersection(u_frontier, v_low)
          slow == lower_frontier_highest_generation(u_frontier)
      IN IF intersection # {} THEN {sort(intersection)}
         ELSE UNION {
           LET skew == storage[cs_id].skip_tree_skew_ancestor
           IN IF skew # {}
              THEN LET ancestor == CHOOSE a \in skew : TRUE
                   IN common_base_loop_always_jump(
                        lower_frontier(u_frontier, ancestor.generation),
                        lower_frontier(v_low, ancestor.generation))
              ELSE common_base_loop_always_jump(slow, v_low)
           : cs_id \in u_frontier[u_gen]}

\* the orders in which the ids of a set can be listed
orderings(S) ==
    {l \in [1..Cardinality(S) -> S] :
       \A i, j \in 1..Cardinality(S) : i # j => l[i] # l[j]}

\* common_base returning the intersection in the order it was collected
RECURSIVE common_base_loop_unsorted(_, _)
common_base_loop_unsorted(u_frontier, v_frontier) ==
    IF is_empty(u_frontier) THEN {<<>>}
    ELSE
      LET u_gen == last_key(u_frontier)
          v_low == lower_frontier(v_frontier, u_gen)
          intersection == highest_generation_intersection(u_frontier, v_low)
          slow == lower_frontier_highest_generation(u_frontier)
      IN IF intersection # {} THEN orderings(intersection)
         ELSE UNION {
           LET skew == storage[cs_id].skip_tree_skew_ancestor
           IN IF skew # {}
              THEN LET ancestor == CHOOSE a \in skew : TRUE
                       lowered_u == lower_frontier(u_frontier,
                                                   ancestor.generation)
                       lowered_v == lower_frontier(v_low,
                                                   ancestor.generation)
                   IN IF is_disjoint(lowered_u, lowered_v)
                      THEN common_base_loop_unsorted(lowered_u, lowered_v)
                      ELSE common_base_loop_unsorted(slow, v_low)
              ELSE common_base_loop_unsorted(slow, v_low)
           : cs_id \in u_frontier[u_gen]}

\* the set of lists the loop can return; the changeset whose edges are
\* fetched is whichever the top bucket's iterator yields first
RECURSIVE common_base_loop(_, _)
common_base_loop(u_frontier, v_frontier) ==
    IF is_empty(u_frontier) THEN {<<>>}
    ELSE
      LET u_gen == last_key(u_frontier)
          v_low == lower_frontier(v_frontier, u_gen)
          intersection == highest_generation_intersection(u_frontier, v_low)
          slow == lower_frontier_highest_generation(u_frontier)
      IN IF intersection # {} THEN {sort(intersection)}
         ELSE UNION {
           LET skew == storage[cs_id].skip_tree_skew_ancestor
           IN IF skew # {}
              THEN LET ancestor == CHOOSE a \in skew : TRUE
                       lowered_u == lower_frontier(u_frontier,
                                                   ancestor.generation)
                       lowered_v == lower_frontier(v_low,
                                                   ancestor.generation)
                   IN IF is_disjoint(lowered_u, lowered_v)
                      THEN common_base_loop(lowered_u, lowered_v)
                      ELSE common_base_loop(slow, v_low)
              ELSE common_base_loop(slow, v_low)
           : cs_id \in u_frontier[u_gen]}

\* the loop of common_base with the skew ancestor of every changeset given
\* by skew_of, taking the jump without the disjointness test
RECURSIVE common_base_loop_skew_always_jump(_, _, _)
common_base_loop_skew_always_jump(skew_of, u_frontier, v_frontier) ==
    IF is_empty(u_frontier) THEN {<<>>}
    ELSE
      LET u_gen == last_key(u_frontier)
          v_low == lower_frontier(v_frontier, u_gen)
          intersection == highest_generation_intersection(u_frontier, v_low)
          slow == lower_frontier_highest_generation(u_frontier)
      IN IF intersection # {} THEN {sort(intersection)}
         ELSE UNION {
           LET skew == skew_of[cs_id]
           IN IF skew # {}
              THEN LET ancestor == CHOOSE a \in skew : TRUE
                   IN common_base_loop_skew_always_jump(skew_of,
                        lower_frontier(u_frontier, ancestor.generation),
                        lower_frontier(v_low, ancestor.generation))
              ELSE common_base_loop_skew_always_jump(skew_of, slow, v_low)
           : cs_id \in u_frontier[u_gen]}

\* the loop of common_base reading each skip_tree_skew_ancestor from skew_of
\* instead of the stored edges
RECURSIVE common_base_loop_skew(_, _, _)
common_base_loop_skew(skew_of, u_frontier, v_frontier) ==
    IF is_empty(u_frontier) THEN {<<>>}
    ELSE
      LET u_gen == last_key(u_frontier)
          v_low == lower_frontier(v_frontier, u_gen)
          intersection == highest_generation_intersection(u_frontier, v_low)
          slow == lower_frontier_highest_generation(u_frontier)
      IN IF intersection # {} THEN {sort(intersection)}
         ELSE UNION {
           LET skew == skew_of[cs_id]
           IN IF skew # {}
              THEN LET ancestor == CHOOSE a \in skew : TRUE
                       lowered_u == lower_frontier(u_frontier,
                                                   ancestor.generation)
                       lowered_v == lower_frontier(v_low,
                                                   ancestor.generation)
                   IN IF is_disjoint(lowered_u, lowered_v)
                      THEN common_base_loop_skew(skew_of, lowered_u,
                                                 lowered_v)
                      ELSE common_base_loop_skew(skew_of, slow, v_low)
              ELSE common_base_loop_skew(skew_of, slow, v_low)
           : cs_id \in u_frontier[u_gen]}

common_base(u, v) ==
    IF u \notin Present \/ v \notin Present THEN {[err |-> TRUE, val |-> <<>>]}
    ELSE {[err |-> FALSE, val |-> l]
          : l \in common_base_loop(single_frontier(u), single_frontier(v))}

\* -------------------------------------------------------- slice_ancestors
\* the filter keeping every bucket of the frontier, emptied or not
retain_keeping_buckets(F, needed_cs_ids) ==
    [g \in DOMAIN F |-> F[g] \cap needed_cs_ids]

\* frontier.into_flat_iter().filter(needed contains).collect()
retain(F, needed_cs_ids) ==
    [g \in {h \in DOMAIN F : F[h] \cap needed_cs_ids # {}} |->
       F[g] \cap needed_cs_ids]

\* changesets_in_range returns the ids of the buckets with
\* gen_lo <= generation < gen_hi. The specification of the frontier says that
\* it also removes those buckets (drains); the lowering that follows it in
\* slice_ancestors has an effect only if it leaves them. Both are modelled.
changesets_in_range(F, gen_lo, gen_hi, drains) ==
    [ids |-> UNION {F[g] : g \in {h \in DOMAIN F : gen_lo <= h /\ h < gen_hi}},
     F |-> IF drains
           THEN [g \in {h \in DOMAIN F : ~(gen_lo <= h /\ h < gen_hi)} |-> F[g]]
           ELSE F]

\* needs_processing(cs_ids) returns the ids of cs_ids that are in needed
needs_processing(needed, cs_ids) == cs_ids \cap needed

\* the slicing loop leaving after its first slice
slice_loop_once(F, needed, slice_size, slice_start, slices, drains) ==
    LET needed_cs_ids == needs_processing(needed, changesets(F))
        kept == retain(F, needed_cs_ids)
        in_range == changesets_in_range(kept, slice_start,
                                        slice_start + slice_size, drains)
    IN IF is_empty(kept) THEN slices
       ELSE Append(slices, [slice_start |-> slice_start,
                            ids |-> in_range.ids])

\* the slices in the order they are pushed (descending slice_start)
RECURSIVE slice_loop(_, _, _, _, _, _)
slice_loop(F, needed, slice_size, slice_start, slices, drains) ==
    LET needed_cs_ids == needs_processing(needed, changesets(F))
        kept == retain(F, needed_cs_ids)
        in_range == changesets_in_range(kept, slice_start,
                                        slice_start + slice_size, drains)
        pushed == Append(slices, [slice_start |-> slice_start,
                                  ids |-> in_range.ids])
    IN IF is_empty(kept) THEN slices
       ELSE IF slice_start > 1
            THEN slice_loop(lower_frontier(in_range.F, slice_start - 1),
                            needed, slice_size,
                            slice_start - slice_size, pushed, drains)
            ELSE pushed

reversed(s) == [i \in 1..Len(s) |-> s[Len(s) + 1 - i]]

\* slice_ancestors returning the slices in the order they were pushed
slice_ancestors_not_reversed(heads, needed, slice_size, drains) ==
    IF fetch_many_edges_required_fails(heads)
    THEN [err |-> TRUE, val |-> <<>>]
    ELSE LET F == frontier(heads)
         IN IF is_empty(F) THEN [err |-> FALSE, val |-> <<>>]
            ELSE LET max_gen == last_key(F)
                     slice_start ==
                       ((max_gen - 1) \div slice_size) * slice_size + 1
                 IN [err |-> FALSE,
                     val |-> slice_loop(F, needed, slice_size,
                                        slice_start, <<>>, drains)]

slice_ancestors(heads, needed, slice_size, drains) ==
    IF fetch_many_edges_required_fails(heads)
    THEN [err |-> TRUE, val |-> <<>>]
    ELSE LET F == frontier(heads)
         IN IF is_empty(F) THEN [err |-> FALSE, val |-> <<>>]
            ELSE LET max_gen == last_key(F)
                     slice_start ==
                       ((max_gen - 1) \div slice_size) * slice_size + 1
                 IN [err |-> FALSE,
                     val |-> reversed(slice_loop(F, needed, slice_size,
                                                 slice_start, <<>>, drains))]

\* ------------------------------------------------------------ is_ancestor
\* is_ancestor without the lowering of the descendant's frontier
is_ancestor_not_lowered(ancestor, descendant) ==
    IF descendant \notin Present \/ ancestor \notin Present
    THEN [err |-> TRUE, val |-> FALSE]
    ELSE LET target_gen == storage[ancestor].node.generation
             F == single_frontier(descendant)
         IN [err |-> FALSE,
             val |-> highest_generation_contains(F, ancestor, target_gen)]

\* is_ancestor with the roles of its two arguments exchanged
is_ancestor_swapped(ancestor, descendant) ==
    IF descendant \notin Present \/ ancestor \notin Present
    THEN [err |-> TRUE, val |-> FALSE]
    ELSE LET target_gen == storage[descendant].node.generation
             F == lower_frontier(single_frontier(ancestor), target_gen)
         IN [err |-> FALSE,
             val |-> highest_generation_contains(F, descendant, target_gen)]

\* is_ancestor testing only that the lowered frontier reaches the target
\* generation, not that it holds the ancestor there
is_ancestor_any_in_bucket(ancestor, descendant) ==
    IF descendant \notin Present \/ ancestor \notin Present
    THEN [err |-> TRUE, val |-> FALSE]
    ELSE LET target_gen == storage[ancestor].node.generation
             F == lower_frontier(single_frontier(descendant), target_gen)
         IN [err |-> FALSE, val |-> target_gen \in DOMAIN F]

\* is_ancestor reading the ancestor's generation with changeset_generation
\* and answering false when there is none
is_ancestor_missing_is_false(ancestor, descendant) ==
    IF descendant \notin Present
    THEN [err |-> TRUE, val |-> FALSE]
    ELSE IF ancestor \notin Present
         THEN [err |-> FALSE, val |-> FALSE]
         ELSE LET target_gen == storage[ancestor].node.generation
                  F == lower_frontier(single_frontier(descendant), target_gen)
              IN [err |-> FALSE,
                  val |-> highest_generation_contains(F, ancestor, target_gen)]

is_ancestor(ancestor, descendant) ==
    IF descendant \notin Present \/ ancestor \notin Present
    THEN [err |-> TRUE, val |-> FALSE]
    ELSE LET target_gen == storage[ancestor].node.generation
             F == lower_frontier(single_frontier(descendant), target_gen)
         IN [err |-> FALSE,
             val |-> highest_generation_contains(F, ancestor, target_gen)]

\* queries change nothing another query can see: they are taken one at a
\* time (res and query hold the one in progress), each between and among
\* the Storage calls of the add calls in flight
IsAncestor ==
    /\ res.op = "none" /\ query.pc = "idle"
    /\ \E ancestor \in Ids, descendant \in Ids :
         res' = [op |-> "is_ancestor", ancestor |-> ancestor,
                 descendant |-> descendant] @@ is_ancestor(ancestor, descendant)
    /\ UNCHANGED <<storage, inflight, errors>>

\* ------------------------------------------------ the graph, read directly
ParentIds(c) == {n.cs_id : n \in Range(storage[c].parents)}

Generation(c) == storage[c].node.generation

\* inclusive ancestors: reachable by zero or more parent edges
RECURSIVE Ancestors(_)
Ancestors(c) == {c} \cup UNION {Ancestors(p) : p \in ParentIds(c)}

AncestorsOf(S) == UNION {Ancestors(c) : c \in S}

\* ---------------------------------------------------------------- inputs
HeadSets == {H \in SUBSET Ids : Cardinality(H) <= MaxHeads}

CommonSets == {H \in SUBSET Ids : Cardinality(H) <= MaxCommon}

\* the monotonic properties: sets of stored ids closed under parents
MonotonicProperties ==
    {P \in SUBSET Present : \A c \in P : ParentIds(c) \subseteq P}

\* needs_processing is only ever asked about ancestors of the heads
NeededSets(heads) == SUBSET AncestorsOf(heads \cap Present)

AncestorsFrontierWith ==
    /\ res.op = "none" /\ query.pc = "idle"
    /\ \E heads \in HeadSets, P \in MonotonicProperties :
         res' = [op |-> "ancestors_frontier_with", heads |-> heads, P |-> P]
                @@ ancestors_frontier_with(heads, P)
    /\ UNCHANGED <<storage, inflight, errors>>

AncestorsDifferenceStreamWith ==
    /\ res.op = "none" /\ query.pc = "idle"
    /\ \E heads \in HeadSets, common \in CommonSets,
          P \in MonotonicProperties :
         res' = [op |-> "ancestors_difference_stream_with", heads |-> heads,
                 common |-> common, P |-> P]
                @@ ancestors_difference_stream_with(heads, common, P)
    /\ UNCHANGED <<storage, inflight, errors>>

RangeStream ==
    /\ res.op = "none" /\ query.pc = "idle"
    /\ \E start_id \in Ids, end_id \in Ids :
         res' = [op |-> "range_stream", start_id |-> start_id,
                 end_id |-> end_id] @@ range_stream(start_id, end_id)
    /\ UNCHANGED <<storage, inflight, errors>>

CommonBase ==
    /\ res.op = "none" /\ query.pc = "idle"
    /\ \E u \in Ids, v \in Ids :
         \E r \in common_base(u, v) :
           res' = [op |-> "common_base", u |-> u, v |-> v] @@ r
    /\ UNCHANGED <<storage, inflight, errors>>

SliceAncestors ==
    /\ res.op = "none" /\ query.pc = "idle"
    /\ \E heads \in HeadSets, slice_size \in 1..MaxSliceSize,
          drains \in BOOLEAN :
       \E needed \in NeededSets(heads) :
         res' = [op |-> "slice_ancestors", heads |-> heads,
                 needed |-> needed, slice_size |-> slice_size,
                 drains |-> drains]
                @@ slice_ancestors(heads, needed, slice_size, drains)
    /\ UNCHANGED <<storage, inflight, errors>>

\* the skew ancestors a build may store: for each changeset none, or a
\* stored node of strictly lower generation
SkewAssignments ==
    [Present -> {{}} \cup {{storage[a].node} : a \in Present}]

LowerSkewAssignments ==
    {skew_of \in SkewAssignments :
       \A c \in Present : \A a \in skew_of[c] :
          a.generation < storage[c].node.generation}

\* common_base on the stored parents with the skew ancestors given
CommonBaseSkew ==
    /\ res.op = "none" /\ query.pc = "idle"
    /\ \E u \in Present, v \in Present, skew_of \in LowerSkewAssignments :
         res' = [op |-> "common_base_skew", u |-> u, v |-> v,
                 skew_of |-> skew_of,
                 vals |-> common_base_loop_skew(skew_of, single_frontier(u),
                                                single_frontier(v))]
    /\ UNCHANGED <<storage, inflight, errors>>

\* a frontier of stored ids lowered to a target generation
LowerFrontier ==
    /\ res.op = "none" /\ query.pc = "idle"
    /\ \E cs_ids \in SUBSET Present, target_gen \in 0..MaxNodes :
         res' = [op |-> "lower_frontier", cs_ids |-> cs_ids,
                 target_gen |-> target_gen,
                 val |-> lower_frontier(frontier(cs_ids), target_gen)]
    /\ UNCHANGED <<storage, inflight, errors>>

\* ------------------------------------------- single reads of one changeset
\* an Option is the empty set (None) or a set of one value (Some)
exists(cs_id) ==
    [err |-> FALSE, val |-> fetch_edges(cs_id) # {}]

changeset_parents(cs_id) ==
    [err |-> FALSE,
     val |-> {[i \in 1..Len(edges.parents) |-> edges.parents[i].cs_id]
              : edges \in fetch_edges(cs_id)}]

changeset_generation(cs_id) ==
    [err |-> FALSE,
     val |-> {edges.node.generation : edges \in fetch_edges(cs_id)}]

\* changeset_children delegates to Storage.fetch_children: the stored ids
\* that record cs_id as a parent, in an unspecified order
changeset_children(cs_id) ==
    [err |-> FALSE, val |-> {c \in Present : cs_id \in ParentIds(c)}]

ChangesetChildren ==
    /\ res.op = "none" /\ query.pc = "idle"
    /\ \E cs_id \in Ids :
         res' = [op |-> "changeset_children", cs_id |-> cs_id]
                @@ changeset_children(cs_id)
    /\ UNCHANGED <<storage, inflight, errors>>

\* exists written as a get-or-insert on the stored map: a missing id is
\* given an empty record
ExistsInserting ==
    /\ res.op = "none" /\ query.pc = "idle"
    /\ \E cs_id \in Ids :
         /\ res' = [op |-> "exists", cs_id |-> cs_id] @@ exists(cs_id)
         /\ storage' = storage_add(storage,
                          build_edges(cs_id, <<>>, <<>>, {})).st
    /\ UNCHANGED <<inflight, errors>>

Exists ==
    /\ res.op = "none" /\ query.pc = "idle"
    /\ \E cs_id \in Ids :
         res' = [op |-> "exists", cs_id |-> cs_id] @@ exists(cs_id)
    /\ UNCHANGED <<storage, inflight, errors>>

ChangesetParents ==
    /\ res.op = "none" /\ query.pc = "idle"
    /\ \E cs_id \in Ids :
         res' = [op |-> "changeset_parents", cs_id |-> cs_id]
                @@ changeset_parents(cs_id)
    /\ UNCHANGED <<storage, inflight, errors>>

ChangesetGeneration ==
    /\ res.op = "none" /\ query.pc = "idle"
    /\ \E cs_id \in Ids :
         res' = [op |-> "changeset_generation", cs_id |-> cs_id]
                @@ changeset_generation(cs_id)
    /\ UNCHANGED <<storage, inflight, errors>>

\* ------------------------------------ add, one step per Storage call
\* the ids of the add calls in flight
AddingIds == {adding[t].cs_id : t \in DOMAIN adding}

\* the parents an id is added with are those of its content hash: the ones of
\* its stored record or of a call in flight, if there is one
ParentListsInFlight(cs_id) ==
    IF cs_id \in Present THEN ParentListsOf(cs_id)
    ELSE IF cs_id \in AddingIds
         THEN {adding[t].parents : t \in {u \in DOMAIN adding :
                                            adding[u].cs_id = cs_id}}
         ELSE ParentLists

\* first Storage call of add: fetch_many_edges_required(parents); its error
\* ends the call
add_fetch(t, cs_id, parents) ==
    IF fetch_many_edges_required_fails(Range(parents))
    THEN /\ res.op = "none" /\ query.pc = "idle"
         /\ res' = [op |-> "add", cs_id |-> cs_id, parents |-> parents,
                    err |-> TRUE, val |-> FALSE]
         /\ UNCHANGED adding
    ELSE /\ adding' = [u \in DOMAIN adding \cup {t} |->
                         IF u = t
                         THEN [cs_id |-> cs_id, parents |-> parents,
                               parent_edges |->
                                 fetch_many_edges(Range(parents))]
                         ELSE adding[u]]
         /\ UNCHANGED res

\* the second Storage call storing the node without its edges
add_store_node_only(t) ==
    LET a == adding[t]
        edges == build_edges(a.cs_id, a.parents, a.parent_edges, {})
        r == storage_add(storage, [edges EXCEPT !.parents = <<>>])
    IN /\ storage' = r.st
       /\ adding' = [u \in DOMAIN adding \ {t} |-> adding[u]]
       /\ added' = added \cup {[cs_id |-> a.cs_id, parents |-> a.parents]}

\* second Storage call of add: Storage.add(build_edges(...)); the call
\* returns, and it is noted as returned with the id and parents it was given
add_store(t) ==
    LET a == adding[t]
    IN \E skew \in calc_skew_ancestor(a.parents, a.parent_edges) :
         LET r == storage_add(storage,
                    build_edges(a.cs_id, a.parents, a.parent_edges, skew))
         IN /\ storage' = r.st
            /\ adding' = [u \in DOMAIN adding \ {t} |-> adding[u]]
            /\ added' = added \cup {[cs_id |-> a.cs_id,
                                     parents |-> a.parents]}

AddFetch ==
    /\ \E t \in (1..MaxTasks) \ DOMAIN adding :
         \E cs_id \in 1..Min({Cardinality(Present \cup AddingIds) + 1,
                              MaxNodes}) :
           \E parents \in ParentListsInFlight(cs_id) :
             add_fetch(t, cs_id, parents)
    /\ UNCHANGED <<storage, added, query, errors>>

AddStore ==
    /\ \E t \in DOMAIN adding : add_store(t)
    /\ UNCHANGED <<res, query, errors>>

\* ----------------------------- is_ancestor, one step per Storage call
\* the edge records the call in flight has fetched so far
Observed(q) ==
    IF q.pc \in {"join", "lower", "done", "stream", "stream_end"}
    THEN q.observed
    ELSE {}

\* after a read or a wave: once both reads of the try_join are done, the
\* call returns when the frontier needs no more lowering
is_ancestor_resume(q) ==
    IF q.frontier = {} \/ q.target_gen = {} THEN q
    ELSE LET F == CHOOSE f \in q.frontier : TRUE
             target_gen == CHOOSE g \in q.target_gen : TRUE
         IN IF is_empty(F) \/ last_key(F) <= target_gen
            THEN [q EXCEPT !.pc = "done",
                           !.val = highest_generation_contains(
                                       F, q.ancestor, target_gen)]
            ELSE [q EXCEPT !.pc = "lower"]

\* what the graph holds when the call is made: how many changesets, whether
\* both ids are among them, and whether the ancestor is reachable from the
\* descendant by parent edges (kept to compare the returned value with)
AtStart(ancestor, descendant) ==
    [stored |-> Cardinality(Present),
     present |-> ancestor \in Present /\ descendant \in Present,
     val |-> /\ ancestor \in Present /\ descendant \in Present
             /\ ancestor \in Ancestors(descendant)]

IsAncestorStart ==
    /\ query.pc = "idle" /\ res.op = "none"
    /\ \E ancestor \in Ids, descendant \in Ids :
         query' = [pc |-> "join", ancestor |-> ancestor,
                   descendant |-> descendant, frontier |-> {},
                   target_gen |-> {}, observed |-> {},
                   err |-> FALSE, val |-> FALSE,
                   at_start |-> AtStart(ancestor, descendant)]
    /\ UNCHANGED <<storage, res, adding, added, errors>>

\* single_frontier(descendant): one fetch_edges, an error if it is missing
IsAncestorReadDescendant ==
    /\ query.pc = "join" /\ query.frontier = {}
    /\ query' =
         IF query.descendant \notin Present
         THEN [query EXCEPT !.pc = "done", !.err = TRUE]
         ELSE is_ancestor_resume(
                [query EXCEPT
                   !.frontier = {single_frontier(query.descendant)},
                   !.observed = @ \cup fetch_edges(query.descendant)])
    /\ UNCHANGED <<storage, res, adding, added, errors>>

\* changeset_generation_required(ancestor): one fetch_edges, an error if it
\* is missing
IsAncestorReadAncestor ==
    /\ query.pc = "join" /\ query.target_gen = {}
    /\ query' =
         IF query.ancestor \notin Present
         THEN [query EXCEPT !.pc = "done", !.err = TRUE]
         ELSE is_ancestor_resume(
                [query EXCEPT
                   !.target_gen = {storage[query.ancestor].node.generation},
                   !.observed = @ \cup fetch_edges(query.ancestor)])
    /\ UNCHANGED <<storage, res, adding, added, errors>>

\* a wave that follows only the first parent of each changeset
IsAncestorLowerWaveFirstParent ==
    /\ query.pc = "lower"
    /\ LET F == CHOOSE f \in query.frontier : TRUE
           top == F[last_key(F)]
       IN query' = is_ancestor_resume(
            [query EXCEPT
               !.frontier = {insert_nodes(without_key(F, last_key(F)),
                               {storage[c].parents[1]
                                : c \in {x \in top :
                                           Len(storage[x].parents) >= 1}})},
               !.observed = @ \cup {storage[c] : c \in top}])
    /\ UNCHANGED <<storage, res, adding, added, errors>>

\* one wave of lower_frontier: the edges of the highest bucket are fetched
\* and the bucket is replaced by its parents
IsAncestorLowerWave ==
    /\ query.pc = "lower"
    /\ LET F == CHOOSE f \in query.frontier : TRUE
       IN query' = is_ancestor_resume(
            [query EXCEPT
               !.frontier = {lower_frontier_highest_generation(F)},
               !.observed = @ \cup {storage[c] : c \in F[last_key(F)]}])
    /\ UNCHANGED <<storage, res, adding, added, errors>>

\* the caller takes the result of the call
IsAncestorReturn ==
    /\ query.pc = "done"
    /\ query' = [pc |-> "idle"]
    /\ UNCHANGED <<storage, res, adding, added, errors>>

\* --------------- ancestors_difference_stream_with, one step per chunk
\* one call of the unfold closure: the highest bucket of heads is popped,
\* common is lowered to it, the ids not excluded are emitted and their
\* parents inserted
ancestors_difference_next(q) ==
    LET generation == last_key(q.heads)
        cs_ids == q.heads[generation]
        lowered == lower_frontier(q.common, generation)
        cs_ids_not_excluded ==
            {c \in cs_ids :
               /\ ~highest_generation_contains(lowered, c, generation)
               /\ c \notin q.P}
        all_edges == fetch_many_edges(cs_ids_not_excluded)
    IN [q EXCEPT
          !.heads = insert_nodes(without_key(q.heads, generation),
                                 ParentNodes(DOMAIN all_edges)),
          !.common = lowered,
          !.out = extend(q.out, cs_ids_not_excluded),
          !.observed = {all_edges[c] : c \in DOMAIN all_edges}]

\* the call: both frontiers are built, or the call fails
DifferenceStreamStart ==
    /\ query.pc = "idle" /\ res.op = "none"
    /\ \E heads \in HeadSets, common \in CommonSets,
          P \in MonotonicProperties :
         query' =
           IF fetch_many_edges_required_fails(heads)
              \/ fetch_many_edges_required_fails(common)
           THEN [pc |-> "stream_end", err |-> TRUE, heads |-> EmptyFrontier,
                 common |-> EmptyFrontier, P |-> P, out |-> <<>>,
                 observed |-> {}]
           ELSE [pc |-> "stream", err |-> FALSE, heads |-> frontier(heads),
                 common |-> frontier(common), P |-> P, out |-> <<>>,
                 observed |-> {storage[c] : c \in heads \cup common}]
    /\ UNCHANGED <<storage, res, adding, added, errors>>

\* the consumer polls the stream for its next chunk
DifferenceStreamNext ==
    /\ query.pc = "stream"
    /\ query' = IF is_empty(query.heads)
                THEN [query EXCEPT !.pc = "stream_end", !.observed = {}]
                ELSE ancestors_difference_next(query)
    /\ UNCHANGED <<storage, res, adding, added, errors>>

\* the consumer has seen the end of the stream or the error
DifferenceStreamReturn ==
    /\ query.pc = "stream_end"
    /\ query' = [pc |-> "idle"]
    /\ UNCHANGED <<storage, res, adding, added, errors>>

\* the future or stream in progress is dropped at a suspension point: its
\* state is dropped with it
Drop ==
    /\ query.pc \notin {"idle"}
    /\ query' = [pc |-> "idle"]
    /\ UNCHANGED <<storage, res, adding, added, errors>>

\* ----------------------------------- common_base, one step per iteration
\* the iteration whose slow step leaves the u frontier as it is
common_base_iterate_not_lowered(q) ==
    IF is_empty(q.u_frontier)
    THEN {[q EXCEPT !.pc = "common_base_return", !.val = <<>>,
                    !.iterations = @ + 1]}
    ELSE
      LET u_gen == last_key(q.u_frontier)
          v_low == lower_frontier(q.v_frontier, u_gen)
          intersection == highest_generation_intersection(q.u_frontier, v_low)
      IN IF intersection # {}
         THEN {[q EXCEPT !.pc = "common_base_return", !.v_frontier = v_low,
                         !.val = sort(intersection), !.iterations = @ + 1]}
         ELSE {[q EXCEPT !.v_frontier = v_low, !.iterations = @ + 1]}

\* one pass through the body of the loop: the set of states it can leave,
\* one for each changeset the top bucket's iterator can yield first
common_base_iterate(q) ==
    IF is_empty(q.u_frontier)
    THEN {[q EXCEPT !.pc = "common_base_return", !.val = <<>>,
                    !.iterations = @ + 1]}
    ELSE
      LET u_gen == last_key(q.u_frontier)
          v_low == lower_frontier(q.v_frontier, u_gen)
          intersection == highest_generation_intersection(q.u_frontier, v_low)
          slow == [q EXCEPT
                     !.u_frontier = lower_frontier_highest_generation(@),
                     !.v_frontier = v_low, !.jumped = FALSE,
                     !.iterations = @ + 1]
      IN IF intersection # {}
         THEN {[q EXCEPT !.pc = "common_base_return", !.v_frontier = v_low,
                         !.val = sort(intersection), !.iterations = @ + 1]}
         ELSE {
           LET skew == storage[cs_id].skip_tree_skew_ancestor
           IN IF skew # {}
              THEN LET ancestor == CHOOSE a \in skew : TRUE
                       lowered_u == lower_frontier(q.u_frontier,
                                                   ancestor.generation)
                       lowered_v == lower_frontier(v_low,
                                                   ancestor.generation)
                   IN IF is_disjoint(lowered_u, lowered_v)
                      THEN [q EXCEPT !.u_frontier = lowered_u,
                                     !.v_frontier = lowered_v,
                                     !.lowered_u_frontier = lowered_u,
                                     !.lowered_v_frontier = lowered_v,
                                     !.jumped = TRUE,
                                     !.iterations = @ + 1]
                      ELSE [slow EXCEPT !.lowered_u_frontier = lowered_u,
                                        !.lowered_v_frontier = lowered_v]
              ELSE slow
           : cs_id \in q.u_frontier[u_gen]}

\* the call: the two single frontiers are built, or the call fails
CommonBaseStart ==
    /\ query.pc = "idle" /\ res.op = "none"
    /\ \E u \in Ids, v \in Ids :
         query' =
           IF u \notin Present \/ v \notin Present
           THEN [pc |-> "common_base_return", u |-> u, v |-> v, err |-> TRUE,
                 val |-> <<>>, u_frontier |-> EmptyFrontier,
                 v_frontier |-> EmptyFrontier,
                 lowered_u_frontier |-> EmptyFrontier,
                 lowered_v_frontier |-> EmptyFrontier,
                 jumped |-> FALSE, iterations |-> 0]
           ELSE [pc |-> "common_base_loop", u |-> u, v |-> v, err |-> FALSE,
                 val |-> <<>>, u_frontier |-> single_frontier(u),
                 v_frontier |-> single_frontier(v),
                 lowered_u_frontier |-> EmptyFrontier,
                 lowered_v_frontier |-> EmptyFrontier,
                 jumped |-> FALSE, iterations |-> 0]
    /\ UNCHANGED <<storage, res, adding, added, errors>>

CommonBaseIterate ==
    /\ query.pc = "common_base_loop"
    /\ query' \in common_base_iterate(query)
    /\ UNCHANGED <<storage, res, adding, added, errors>>

CommonBaseReturn ==
    /\ query.pc = "common_base_return"
    /\ query' = [pc |-> "idle"]
    /\ UNCHANGED <<storage, res, adding, added, errors>>

\* ------------------------------- slice_ancestors, one step per iteration
\* the pass pushing the ids in range of the frontier as it was before the
\* filter
slice_iterate_unfiltered(q) ==
    LET needed_cs_ids == needs_processing(q.needed, changesets(q.frontier))
        kept == retain(q.frontier, needed_cs_ids)
        in_range == changesets_in_range(q.frontier, q.slice_start,
                                        q.slice_start + q.slice_size,
                                        q.drains)
        pushed == Append(q.slices, [slice_start |-> q.slice_start,
                                    ids |-> in_range.ids])
    IN IF is_empty(kept)
       THEN [q EXCEPT !.pc = "slice_return", !.frontier = kept,
                      !.needed_cs_ids = needed_cs_ids,
                      !.val = reversed(q.slices), !.iterations = @ + 1]
       ELSE IF q.slice_start > 1
            THEN [q EXCEPT !.frontier = lower_frontier(in_range.F,
                                                       q.slice_start - 1),
                           !.needed_cs_ids = needed_cs_ids,
                           !.slices = pushed,
                           !.slice_start = @ - q.slice_size,
                           !.iterations = @ + 1]
            ELSE [q EXCEPT !.pc = "slice_return", !.frontier = in_range.F,
                           !.needed_cs_ids = needed_cs_ids,
                           !.slices = pushed, !.val = reversed(pushed),
                           !.iterations = @ + 1]

\* one pass through the body of the loop
slice_iterate(q) ==
    LET needed_cs_ids == needs_processing(q.needed, changesets(q.frontier))
        kept == retain(q.frontier, needed_cs_ids)
        in_range == changesets_in_range(kept, q.slice_start,
                                        q.slice_start + q.slice_size,
                                        q.drains)
        pushed == Append(q.slices, [slice_start |-> q.slice_start,
                                    ids |-> in_range.ids])
    IN IF is_empty(kept)
       THEN [q EXCEPT !.pc = "slice_return", !.frontier = kept,
                      !.needed_cs_ids = needed_cs_ids,
                      !.val = reversed(q.slices), !.iterations = @ + 1]
       ELSE IF q.slice_start > 1
            THEN [q EXCEPT !.frontier = lower_frontier(in_range.F,
                                                       q.slice_start - 1),
                           !.needed_cs_ids = needed_cs_ids,
                           !.slices = pushed,
                           !.slice_start = @ - q.slice_size,
                           !.iterations = @ + 1]
            ELSE [q EXCEPT !.pc = "slice_return", !.frontier = in_range.F,
                           !.needed_cs_ids = needed_cs_ids,
                           !.slices = pushed, !.val = reversed(pushed),
                           !.iterations = @ + 1]

\* the call starting its first slice at the highest generation itself
SliceAncestorsStartAtMaxGen ==
    /\ query.pc = "idle" /\ res.op = "none"
    /\ \E heads \in HeadSets, slice_size \in 1..MaxSliceSize,
          drains \in BOOLEAN :
       \E needed \in NeededSets(heads) :
         LET F == IF fetch_many_edges_required_fails(heads)
                  THEN EmptyFrontier ELSE frontier(heads)
             returned == [pc |-> "slice_return", heads |-> heads,
                          needed |-> needed, slice_size |-> slice_size,
                          drains |-> drains, err |-> FALSE, val |-> <<>>,
                          frontier |-> EmptyFrontier, max_gen |-> 0,
                          slice_start |-> 0, slices |-> <<>>,
                          needed_cs_ids |-> {}, iterations |-> 0]
         IN query' =
              IF fetch_many_edges_required_fails(heads)
              THEN [returned EXCEPT !.err = TRUE]
              ELSE IF is_empty(F) THEN returned
              ELSE [returned EXCEPT
                      !.pc = "slice_loop", !.frontier = F,
                      !.max_gen = last_key(F),
                      !.slice_start = last_key(F)]
    /\ UNCHANGED <<storage, res, adding, added, errors>>

\* the call: the frontier of the heads is built and the first slice start
\* computed, or the call fails or returns at once
SliceAncestorsStart ==
    /\ query.pc = "idle" /\ res.op = "none"
    /\ \E heads \in HeadSets, slice_size \in 1..MaxSliceSize,
          drains \in BOOLEAN :
       \E needed \in NeededSets(heads) :
         LET F == IF fetch_many_edges_required_fails(heads)
                  THEN EmptyFrontier ELSE frontier(heads)
             returned == [pc |-> "slice_return", heads |-> heads,
                          needed |-> needed, slice_size |-> slice_size,
                          drains |-> drains, err |-> FALSE, val |-> <<>>,
                          frontier |-> EmptyFrontier, max_gen |-> 0,
                          slice_start |-> 0, slices |-> <<>>,
                          needed_cs_ids |-> {}, iterations |-> 0]
         IN query' =
              IF fetch_many_edges_required_fails(heads)
              THEN [returned EXCEPT !.err = TRUE]
              ELSE IF is_empty(F) THEN returned
              ELSE [returned EXCEPT
                      !.pc = "slice_loop", !.frontier = F,
                      !.max_gen = last_key(F),
                      !.slice_start =
                        ((last_key(F) - 1) \div slice_size) * slice_size + 1]
    /\ UNCHANGED <<storage, res, adding, added, errors>>

SliceAncestorsIterate ==
    /\ query.pc = "slice_loop"
    /\ query' = slice_iterate(query)
    /\ UNCHANGED <<storage, res, adding, added, errors>>

SliceAncestorsReturn ==
    /\ query.pc = "slice_return"
    /\ query' = [pc |-> "idle"]
    /\ UNCHANGED <<storage, res, adding, added, errors>>

\* ---------------------------------- range_stream, one step per iteration
\* one pass of the downward loop: the highest bucket is popped and, above the
\* start generation, its parents inserted and recorded as having children
range_discover_next(q) ==
    LET gen == last_key(q.frontier)
        cs_ids == q.frontier[gen]
        popped == without_key(q.frontier, gen)
    IN IF gen > q.start_generation
       THEN [q EXCEPT
               !.frontier = insert_nodes(popped, ParentNodes(cs_ids)),
               !.children = @ \cup
                 {<<storage[c].parents[i].cs_id, storage[c].node.cs_id,
                    storage[c].node.generation>>
                  : <<c, i>> \in {x \in cs_ids \X (1..MaxNodes) :
                                    x[2] <= Len(storage[x[1]].parents)}},
               !.reached_start = @ \/ q.start_id \in cs_ids]
       ELSE [q EXCEPT !.frontier = popped,
                      !.reached_start = @ \/ q.start_id \in cs_ids]

\* one call of the unfold closure: the lowest bucket is popped and emitted,
\* and the recorded children of its ids inserted
range_unfold_next(q) ==
    LET cs_ids == q.upwards_frontier[first_key(q.upwards_frontier)]
    IN [q EXCEPT
          !.upwards_frontier =
             insert_nodes(without_key(q.upwards_frontier,
                                      first_key(q.upwards_frontier)),
                          {[cs_id |-> t[2], generation |-> t[3]]
                           : t \in {x \in q.children : x[1] \in cs_ids}}),
          !.out = extend(q.out, cs_ids)]

RangeStreamStart ==
    /\ query.pc = "idle" /\ res.op = "none"
    /\ \E start_id \in Ids, end_id \in Ids :
         LET failed == [pc |-> "range_end", start_id |-> start_id,
                        end_id |-> end_id, err |-> TRUE,
                        start_generation |-> 0, frontier |-> EmptyFrontier,
                        children |-> {}, reached_start |-> FALSE,
                        upwards_frontier |-> EmptyFrontier, out |-> <<>>]
         IN query' =
              IF start_id \notin Present \/ end_id \notin Present
              THEN failed
              ELSE [failed EXCEPT
                      !.pc = "range_discover", !.err = FALSE,
                      !.start_generation =
                         storage[start_id].node.generation,
                      !.frontier = single_frontier(end_id)]
    /\ UNCHANGED <<storage, res, adding, added, errors>>

RangeStreamDiscover ==
    /\ query.pc = "range_discover"
    /\ query' =
         IF ~is_empty(query.frontier) THEN range_discover_next(query)
         ELSE IF ~query.reached_start
              THEN [query EXCEPT !.pc = "range_end"]
              ELSE [query EXCEPT
                      !.pc = "range_unfold",
                      !.upwards_frontier =
                         new_single(query.start_id, query.start_generation)]
    /\ UNCHANGED <<storage, res, adding, added, errors>>

RangeStreamNext ==
    /\ query.pc = "range_unfold"
    /\ query' = IF is_empty(query.upwards_frontier)
                THEN [query EXCEPT !.pc = "range_end"]
                ELSE range_unfold_next(query)
    /\ UNCHANGED <<storage, res, adding, added, errors>>

RangeStreamReturn ==
    /\ query.pc = "range_end"
    /\ query' = [pc |-> "idle"]
    /\ UNCHANGED <<storage, res, adding, added, errors>>

\* ------------------------------------------- indexedlog errors (errors.rs)
\* an Error holds its sources, its messages and the corruption flag; errors
\* is the Error values the crate currently holds. A source is another Error
\* or an error of some other type (an io::Error). marked notes that
\* mark_corruption was called on the value by its holder.
Messages == {"message"}

IoError == [kind |-> "io::Error"]

blank == [kind |-> "Error", sources |-> <<>>, messages |-> <<>>,
          is_corruption |-> FALSE, marked |-> FALSE]

is_corruption(e) == e.is_corruption

message(e, m) == [e EXCEPT !.messages = Append(@, m)]

mark_corruption(e) == [e EXCEPT !.is_corruption = TRUE]

\* source_dyn pushing the source without looking at its flag
source_dyn_not_inherited(e, source) ==
    [e EXCEPT !.sources = Append(@, source)]

\* downcast_ref::<Error>() succeeds exactly for a source of kind Error
source_dyn(e, source) ==
    LET marked_self == IF source.kind = "Error" /\ is_corruption(source)
                       THEN mark_corruption(e)
                       ELSE e
    IN [marked_self EXCEPT !.sources = Append(@, source)]

\* the number of values an Error is made of
RECURSIVE Size(_)
SumSize(srcs, n) ==
    IF n = 0 THEN 0
    ELSE LET RECURSIVE Sum(_)
             Sum(i) == IF i = 0 THEN 0 ELSE Size(srcs[i]) + Sum(i - 1)
         IN Sum(n)

Size(e) ==
    IF e.kind # "Error" THEN 1
    ELSE 1 + Len(e.messages) + SumSize(e.sources, Len(e.sources))

Held == IF DOMAIN errors = {} THEN 0
        ELSE LET RECURSIVE Total(_)
                 Total(S) == IF S = {} THEN 0
                             ELSE LET k == CHOOSE x \in S : TRUE
                                  IN Size(errors[k]) + Total(S \ {k})
             IN Total(DOMAIN errors)

Blank ==
    /\ Held < MaxErrorSize
    /\ \E k \in (1..MaxErrors) \ DOMAIN errors :
         errors' = [j \in DOMAIN errors \cup {k} |->
                      IF j = k THEN blank ELSE errors[j]]
    /\ UNCHANGED <<storage, res, inflight>>

Message ==
    /\ Held < MaxErrorSize
    /\ \E k \in DOMAIN errors, m \in Messages :
         errors' = [errors EXCEPT ![k] = message(@, m)]
    /\ UNCHANGED <<storage, res, inflight>>

\* source(err): the source is moved into the Error
SourceError ==
    /\ \E k \in DOMAIN errors, j \in DOMAIN errors :
         /\ k # j
         /\ errors' = [i \in DOMAIN errors \ {j} |->
                         IF i = k THEN source_dyn(errors[k], errors[j])
                         ELSE errors[i]]
    /\ UNCHANGED <<storage, res, inflight>>

SourceIoError ==
    /\ Held < MaxErrorSize
    /\ \E k \in DOMAIN errors :
         errors' = [errors EXCEPT ![k] = source_dyn(@, IoError)]
    /\ UNCHANGED <<storage, res, inflight>>

MarkCorruption ==
    /\ \E k \in DOMAIN errors :
         errors' = [errors EXCEPT
                      ![k] = [mark_corruption(@) EXCEPT !.marked = TRUE]]
    /\ UNCHANGED <<storage, res, inflight>>

\* an Error value is dropped
DropError ==
    /\ \E k \in DOMAIN errors :
         errors' = [i \in DOMAIN errors \ {k} |-> errors[i]]
    /\ UNCHANGED <<storage, res, inflight>>

\* the ids of a Vec or stream given as a sequence of chunks
Emitted(out) == UNION Range(out)

\* C1: is_ancestor(a, d) on present ids is true exactly when a is reachable
\* from d by zero or more parent edges
C1_IsAncestorIsReachability ==
    (res.op = "is_ancestor" /\ ~res.err) =>
        (res.val <=> res.ancestor \in Ancestors(res.descendant))

C1_Witness ==
    /\ res.op = "is_ancestor" /\ ~res.err /\ res.val
    /\ res.ancestor # res.descendant
    /\ res.ancestor \notin ParentIds(res.descendant)
    /\ Cardinality(ParentIds(res.descendant)) = 2

\* C2: the ids streamed by ancestors_difference_stream_with(heads, common, P)
\* are the inclusive ancestors of heads that are neither ancestors of common
\* nor satisfy P
C2_DifferenceIsSetDifference ==
    (res.op = "ancestors_difference_stream_with" /\ ~res.err) =>
        Emitted(res.val) =
            (AncestorsOf(res.heads) \ AncestorsOf(res.common)) \ res.P

C2_Witness ==
    /\ res.op = "ancestors_difference_stream_with" /\ ~res.err
    /\ Len(res.val) >= 2
    /\ AncestorsOf(res.heads) \cap AncestorsOf(res.common) # {}
    /\ (AncestorsOf(res.heads) \cap res.P) \ AncestorsOf(res.common) # {}

\* C3: common_base(u, v) is the set of common inclusive ancestors of u and v
\* of greatest generation: each is an ancestor of both, none has a strict
\* descendant that is a common ancestor, and it is empty exactly when u and v
\* share no ancestor
CommonAncestors(u, v) == Ancestors(u) \cap Ancestors(v)

C3_CommonBaseIsGreatestCommonAncestors ==
    (res.op = "common_base" /\ ~res.err) =>
        LET CA == CommonAncestors(res.u, res.v)
        IN /\ Range(res.val) =
                {c \in CA : \A d \in CA : Generation(d) <= Generation(c)}
           /\ \A c \in Range(res.val) :
                /\ c \in CA
                /\ \A d \in CA : c \in Ancestors(d) => d = c
           /\ (res.val = <<>>) <=> (CA = {})

C3_Witness ==
    /\ res.op = "common_base" /\ ~res.err
    /\ Len(res.val) = 2
    /\ res.u # res.v

\* C4: range_stream(s, e) emits exactly the ids that are descendants of s and
\* ancestors of e, and is non-empty exactly when s is an ancestor of e
C4_RangeIsBetween ==
    (res.op = "range_stream" /\ ~res.err) =>
        /\ Emitted(res.val) =
             {x \in Present : res.start_id \in Ancestors(x)
                              /\ x \in Ancestors(res.end_id)}
        /\ (res.val # <<>>) <=> (res.start_id \in Ancestors(res.end_id))

C4_Witness ==
    /\ res.op = "range_stream" /\ ~res.err
    /\ Cardinality(Emitted(res.val)) = 4
    /\ Len(res.val) = 3

\* C5: with a monotonic P, every id returned by ancestors_frontier_with(H, P)
\* satisfies P and is an ancestor of a head, and every ancestor of a head
\* that satisfies P is an ancestor of a returned id
C5_FrontierCoversProperty ==
    (res.op = "ancestors_frontier_with" /\ ~res.err) =>
        /\ Emitted(res.val) \subseteq res.P \cap AncestorsOf(res.heads)
        /\ AncestorsOf(res.heads) \cap res.P
             \subseteq AncestorsOf(Emitted(res.val))

C5_Witness ==
    /\ res.op = "ancestors_frontier_with" /\ ~res.err
    /\ Cardinality(Emitted(res.val)) = 2
    /\ Emitted(res.val) \cap res.heads = {}
    /\ AncestorsOf(res.heads) \cap res.P # Emitted(res.val)

\* C6 as stated: no id returned by ancestors_frontier_with is a strict
\* ancestor of another returned id
C6_FrontierIsAntichain ==
    (res.op = "ancestors_frontier_with" /\ ~res.err) =>
        \A f \in Emitted(res.val), g \in Emitted(res.val) :
            f \in Ancestors(g) => f = g

\* C6 amended: every id returned by ancestors_frontier_with is a P-node that
\* is maximal along at least one path (it is a head, or a parent of an
\* ancestor of a head that does not satisfy P), and no id is returned twice
C6_FrontierIsMaximalOnSomePath ==
    (res.op = "ancestors_frontier_with" /\ ~res.err) =>
        /\ \A f \in Emitted(res.val) :
             /\ f \in res.P
             /\ \/ f \in res.heads
                \/ \E y \in AncestorsOf(res.heads) \ res.P :
                     f \in ParentIds(y)
        /\ \A i, j \in 1..Len(res.val) :
             i # j => res.val[i] \cap res.val[j] = {}

C6_Witness ==
    /\ res.op = "ancestors_frontier_with" /\ ~res.err
    /\ Cardinality(res.heads) = 1
    /\ \E f \in Emitted(res.val), g \in Emitted(res.val) :
         f # g /\ f \in Ancestors(g)

\* C7: every slice returned by slice_ancestors holds only ids whose
\* generation is in [slice_start, slice_start + slice_size), and the slices
\* are in strictly ascending order of slice_start
C7_SlicesInWindowAscending ==
    (res.op = "slice_ancestors" /\ ~res.err) =>
        /\ \A i \in 1..Len(res.val) : \A x \in res.val[i].ids :
             /\ res.val[i].slice_start <= Generation(x)
             /\ Generation(x) < res.val[i].slice_start + res.slice_size
        /\ \A i, j \in 1..Len(res.val) :
             i < j => res.val[i].slice_start < res.val[j].slice_start

C7_Witness ==
    /\ res.op = "slice_ancestors" /\ ~res.err
    /\ Len(res.val) >= 2
    /\ res.slice_size = 2
    /\ \E i \in 1..Len(res.val) : \E x \in res.val[i].ids :
         /\ Generation(x) = res.val[i].slice_start + 1
         /\ x \notin res.heads

\* C8 as stated: when needs_processing returns its whole input, every
\* inclusive ancestor of a head is in exactly one slice, the one whose window
\* contains its generation
InWindow(slice, x, slice_size) ==
    /\ slice.slice_start <= Generation(x)
    /\ Generation(x) < slice.slice_start + slice_size

C8_SlicesPartitionAncestors ==
    (res.op = "slice_ancestors" /\ ~res.err /\ res.needed = Present) =>
        \A x \in AncestorsOf(res.heads) :
            \E i \in 1..Len(res.val) :
                /\ x \in res.val[i].ids
                /\ InWindow(res.val[i], x, res.slice_size)
                /\ \A j \in 1..Len(res.val) : x \in res.val[j].ids => j = i

\* C8 amended: when needs_processing returns its whole input, every head is
\* in exactly one slice, the one whose window contains its generation, and
\* every id of a slice is an inclusive ancestor of a head and is in no other
\* slice; the other ancestors of the heads need not be in any slice
C8_SlicesHoldHeadsOnce ==
    (res.op = "slice_ancestors" /\ ~res.err /\ res.needed = Present) =>
        /\ \A h \in res.heads :
             \E i \in 1..Len(res.val) :
                /\ h \in res.val[i].ids
                /\ InWindow(res.val[i], h, res.slice_size)
        /\ \A i \in 1..Len(res.val) : \A x \in res.val[i].ids :
             /\ x \in AncestorsOf(res.heads)
             /\ \A j \in 1..Len(res.val) : x \in res.val[j].ids => j = i

C8_Witness ==
    /\ res.op = "slice_ancestors" /\ ~res.err /\ res.needed = Present
    /\ Cardinality(res.heads) = 2
    /\ Len(res.val) >= 2
    /\ \E x \in AncestorsOf(res.heads) :
         \A i \in 1..Len(res.val) : x \notin res.val[i].ids

\* C9: add returns true exactly when the id was not stored before the call;
\* a call on a stored id leaves the stored graph as it was, no step changes
\* a stored record, and after every call the stored generation of the id is
\* 1 + the greatest generation of its parents
ParentsMaxGeneration(st, c) ==
    IF Len(st[c].parents) = 0 THEN 0
    ELSE Max({st[p].node.generation
              : p \in {n.cs_id : n \in Range(st[c].parents)}})

C9_AddStep ==
    /\ \A c \in DOMAIN storage :
         c \in DOMAIN storage' /\ storage'[c] = storage[c]
    /\ (res.op = "none" /\ res'.op = "add" /\ ~res'.err) =>
           /\ res'.val <=> (res'.cs_id \notin DOMAIN storage)
           /\ res'.cs_id \in DOMAIN storage => storage' = storage
           /\ res'.val =>
                [i \in 1..Len(res'.parents) |->
                   storage'[res'.cs_id].parents[i].cs_id] = res'.parents
           /\ storage'[res'.cs_id].node.generation =
                1 + ParentsMaxGeneration(storage', res'.cs_id)

C9_AddIsIdempotent == [][C9_AddStep]_vars

C9_Witness ==
    /\ res.op = "add" /\ ~res.err /\ ~res.val
    /\ Len(res.parents) = 2
    /\ Len(storage[res.cs_id].parents) = 2
    /\ [i \in 1..2 |-> storage[res.cs_id].parents[i].cs_id] = res.parents

\* C10: every stored changeset has generation 1 without parents and
\* 1 + the greatest generation of its parents otherwise; each parent p of c
\* has a smaller generation, is recorded in c with its own stored
\* generation, and is_ancestor(p, c) is true
C10_GenerationInvariant ==
    \A c \in Present :
        /\ Generation(c) = 1 + ParentsMaxGeneration(storage, c)
        /\ Len(storage[c].parents) = 0 => Generation(c) = 1
        /\ \A n \in Range(storage[c].parents) :
             /\ n.cs_id \in Present
             /\ n.generation = Generation(n.cs_id)
             /\ n.generation < Generation(c)
             /\ is_ancestor(n.cs_id, c) = [err |-> FALSE, val |-> TRUE]

C10_Witness ==
    \E c \in Present :
        /\ Len(storage[c].parents) = 2
        /\ storage[c].parents[1].generation # storage[c].parents[2].generation
        /\ Generation(c) >= 3

\* C11: ancestry is antisymmetric in every stored graph: if is_ancestor(a, b)
\* and is_ancestor(b, a) are both true for stored a and b then a = b
C11_AncestryIsAntisymmetric ==
    \A a \in Present, b \in Present :
        (is_ancestor(a, b).val /\ is_ancestor(b, a).val) => a = b

C11_Witness ==
    /\ \E a \in Present, b \in Present :
         /\ a # b /\ a \notin ParentIds(b)
         /\ is_ancestor(a, b).val /\ ~is_ancestor(b, a).val
    /\ \E c \in Present, d \in Present :
         c # d /\ Generation(c) = Generation(d) /\ Generation(c) >= 2

\* C12: add with a parent id that is not stored returns an error and leaves
\* the stored graph as it was, so that every parent of every stored changeset
\* is itself stored
C12_AddStep ==
    /\ (res.op = "none" /\ res'.op = "add"
        /\ ~(Range(res'.parents) \subseteq DOMAIN storage)) =>
           (res'.err /\ storage' = storage)
    /\ \A c \in DOMAIN storage' : \A n \in Range(storage'[c].parents) :
         n.cs_id \in DOMAIN storage'

C12_MissingParentIsError == [][C12_AddStep]_vars

C12_Witness ==
    /\ res.op = "add" /\ res.err
    /\ res.cs_id \notin Present
    /\ Range(res.parents) \cap Present # {}
    /\ Range(res.parents) \ Present # {}

\* C13: is_ancestor returns an error, not false, whenever the ancestor id or
\* the descendant id is not stored
C13_IsAncestorMissingIsError ==
    (res.op = "is_ancestor"
     /\ (res.ancestor \notin Present \/ res.descendant \notin Present)) =>
        res.err

C13_Witness ==
    /\ res.op = "is_ancestor" /\ res.err
    /\ res.ancestor \notin Present
    /\ res.descendant \in Present
    /\ Cardinality(Present) >= 2

\* C14: ancestors_difference_stream_with, ancestors_frontier_with and
\* slice_ancestors return an error when an id of heads (or of common) is not
\* stored, and the stream call fails before any id is emitted
C14_MissingHeadIsError ==
    (/\ res.op \in {"ancestors_difference_stream_with",
                    "ancestors_frontier_with", "slice_ancestors"}
     /\ \/ ~(res.heads \subseteq Present)
        \/ /\ res.op = "ancestors_difference_stream_with"
           /\ ~(res.common \subseteq Present)) =>
        (res.err /\ res.val = <<>>)

C14_Witness ==
    /\ res.op = "ancestors_difference_stream_with" /\ res.err
    /\ res.heads # {} /\ res.heads \subseteq Present
    /\ ~(res.common \subseteq Present)
    /\ res.P = {}

\* C15: no id is emitted more than once by ancestors_difference_stream_with,
\* also when a head is an ancestor of another head and when an id is reached
\* along several paths (each chunk of the stream is a set of ids)
C15_DifferenceEmitsOnce ==
    (res.op = "ancestors_difference_stream_with" /\ ~res.err) =>
        \A i, j \in 1..Len(res.val) :
            i # j => res.val[i] \cap res.val[j] = {}

C15_Witness ==
    /\ res.op = "ancestors_difference_stream_with" /\ ~res.err
    /\ \E h \in res.heads, k \in res.heads :
         h # k /\ h \in Ancestors(k) /\ h \in Emitted(res.val)
    /\ \E x \in Emitted(res.val), y \in Emitted(res.val),
          z \in Emitted(res.val) :
         /\ x \in ParentIds(y) /\ x \in ParentIds(z)
         /\ Generation(y) # Generation(z)

\* C16: ancestors_difference_stream_with emits in non-increasing order of
\* generation: an id emitted before another has a generation at least as
\* great (the ids of one chunk have the same generation)
C16_DifferenceDescendingGeneration ==
    (res.op = "ancestors_difference_stream_with" /\ ~res.err) =>
        \A i, j \in 1..Len(res.val) :
            i <= j => \A x \in res.val[i], y \in res.val[j] :
                        Generation(x) >= Generation(y)

C16_Witness ==
    /\ res.op = "ancestors_difference_stream_with" /\ ~res.err
    /\ Len(res.val) >= 3
    /\ \E i \in 1..Len(res.val) : Cardinality(res.val[i]) = 2
    /\ Cardinality(res.heads) = 2

\* C17: range_stream emits in non-decreasing order of generation and emits
\* no id more than once, also when an id of the range is reached from the
\* start along several paths
C17_RangeAscendingOnce ==
    (res.op = "range_stream" /\ ~res.err) =>
        /\ \A i, j \in 1..Len(res.val) :
             i <= j => \A x \in res.val[i], y \in res.val[j] :
                         Generation(x) <= Generation(y)
        /\ \A i, j \in 1..Len(res.val) :
             i # j => res.val[i] \cap res.val[j] = {}

C17_Witness ==
    /\ res.op = "range_stream" /\ ~res.err
    /\ \E x \in Emitted(res.val) :
         /\ Cardinality(ParentIds(x)) = 2
         /\ ParentIds(x) \subseteq Emitted(res.val)
         /\ res.start_id \in ParentIds(x)

\* C18: for every stored id c, range_stream(c, c) yields exactly c
C18_RangeOfOneId ==
    (res.op = "range_stream" /\ ~res.err /\ res.start_id = res.end_id) =>
        res.val = <<{res.start_id}>>

C18_Witness ==
    /\ res.op = "range_stream" /\ ~res.err
    /\ res.start_id = res.end_id
    /\ ParentIds(res.start_id) # {}
    /\ \E c \in Present : res.start_id \in ParentIds(c)

\* C19: the list returned by common_base is in strictly ascending order of
\* ChangesetId, so it holds no id twice
C19_CommonBaseSorted ==
    (res.op = "common_base" /\ ~res.err) =>
        \A i, j \in 1..Len(res.val) : i < j => res.val[i] < res.val[j]

C19_Witness ==
    /\ res.op = "common_base" /\ ~res.err
    /\ Len(res.val) = 2
    /\ res.val[1] < res.val[2]
    /\ Len(storage[res.u].parents) = 2
    /\ storage[res.u].parents[1].cs_id = res.val[2]

\* C20: once an add call for X has returned, every read of X's record made
\* afterwards, by exists, changeset_parents, changeset_generation or a wave
\* of a traversal, finds X with its whole record: the parents it was added
\* with, each with its stored generation, and a generation of 1 + the
\* greatest parent generation, whatever add calls are in flight
CompleteRecord(edges, parents) ==
    /\ [i \in 1..Len(edges.parents) |-> edges.parents[i].cs_id] = parents
    /\ \A i \in 1..Len(edges.parents) :
         edges.parents[i].generation = storage[parents[i]].node.generation
    /\ edges.node.generation =
         1 + (IF Len(parents) = 0 THEN 0
              ELSE Max({storage[p].node.generation : p \in Range(parents)}))

C20_ReadStep ==
    \A r \in added :
      /\ (res.op = "none" /\ res'.op = "exists" /\ res'.cs_id = r.cs_id) =>
             res'.val
      /\ (res.op = "none" /\ res'.op = "changeset_parents"
          /\ res'.cs_id = r.cs_id) =>
             res'.val = {r.parents}
      /\ (res.op = "none" /\ res'.op = "changeset_generation"
          /\ res'.cs_id = r.cs_id) =>
             res'.val = {1 + (IF Len(r.parents) = 0 THEN 0
                              ELSE Max({storage[p].node.generation
                                        : p \in Range(r.parents)}))}
      /\ \A edges \in Observed(query') \ Observed(query) :
           edges.node.cs_id = r.cs_id => CompleteRecord(edges, r.parents)

C20_AddedRecordIsComplete == [][C20_ReadStep]_vars

C20_Witness ==
    /\ query.pc = "lower"
    /\ adding # <<>>
    /\ \E edges \in query.observed :
         /\ edges.node.cs_id # query.descendant
         /\ Len(edges.parents) = 2
         /\ \E r \in added : r.cs_id = edges.node.cs_id
         /\ \E t \in DOMAIN adding :
              edges.node.cs_id \in Range(adding[t].parents)

\* C21: no operation other than add changes the stored graph: a step that
\* changes it is a step of add that inserted a changeset, and every step of
\* a query, run to its end, consumed in part or dropped, leaves it as it was
C21_FrameStep ==
    storage' # storage =>
        /\ res.op = "none" /\ res'.op = "add" /\ ~res'.err /\ res'.val
        /\ query' = query

C21_OnlyAddChangesStorage == [][C21_FrameStep]_vars

C21_Witness ==
    /\ query.pc = "stream"
    /\ Len(query.out) >= 1
    /\ ~is_empty(query.heads)
    /\ res.op = "add" /\ ~res.err /\ res.val

\* C22: an Error reports is_corruption() exactly when mark_corruption was
\* called on it or an Error that was a corruption error was attached to it as
\* a source, at any depth of nesting; blank, messages and other sources never
\* set the flag, and no operation clears it
RECURSIVE ShouldBeCorruption(_)
ShouldBeCorruption(e) ==
    \/ e.marked
    \/ \E i \in 1..Len(e.sources) :
         /\ e.sources[i].kind = "Error"
         /\ ShouldBeCorruption(e.sources[i])

C22_FlagStep ==
    /\ \A k \in DOMAIN errors' :
         is_corruption(errors'[k]) <=> ShouldBeCorruption(errors'[k])
    /\ \A k \in DOMAIN errors \cap DOMAIN errors' :
         /\ is_corruption(errors[k]) => is_corruption(errors'[k])
         /\ (/\ ~is_corruption(errors[k]) /\ is_corruption(errors'[k])) =>
              \/ errors'[k].marked
              \/ /\ Len(errors'[k].sources) = Len(errors[k].sources) + 1
                 /\ errors'[k].sources[Len(errors'[k].sources)].kind = "Error"
                 /\ is_corruption(
                        errors'[k].sources[Len(errors'[k].sources)])
    /\ \A k \in DOMAIN errors' \ DOMAIN errors :
         ~is_corruption(errors'[k])

C22_CorruptionFlag == [][C22_FlagStep]_vars

C22_Witness ==
    \E k \in DOMAIN errors :
        /\ is_corruption(errors[k]) /\ ~errors[k].marked
        /\ Len(errors[k].sources) = 1
        /\ errors[k].sources[1].kind = "Error"
        /\ ~errors[k].sources[1].marked
        /\ Len(errors[k].sources[1].sources) = 1
        /\ errors[k].sources[1].sources[1].kind = "Error"
        /\ errors[k].sources[1].sources[1].marked

\* C23: after lower_frontier(F, g) every id in F has generation at most g,
\* and the changesets of generation at most g that are inclusive ancestors of
\* some id in F are the same as before the call
AncestorsUpTo(S, g) == {a \in AncestorsOf(S) : Generation(a) <= g}

C23_LowerFrontierPreservesAncestors ==
    res.op = "lower_frontier" =>
        /\ \A c \in changesets(res.val) : Generation(c) <= res.target_gen
        /\ AncestorsUpTo(changesets(res.val), res.target_gen) =
             AncestorsUpTo(res.cs_ids, res.target_gen)

C23_Witness ==
    /\ res.op = "lower_frontier"
    /\ \E c \in res.cs_ids : Generation(c) >= res.target_gen + 2
    /\ \E c \in res.cs_ids : Generation(c) <= res.target_gen
    /\ changesets(res.val) \ res.cs_ids # {}

\* C24: in every state of every frontier used by is_ancestor,
\* ancestors_difference_stream_with, common_base, range_stream and
\* slice_ancestors, no generation bucket is empty and each id is in at most
\* one bucket, the one keyed by the generation stored for it
WellFormed(F) ==
    /\ \A g \in DOMAIN F : F[g] # {}
    /\ \A g \in DOMAIN F, h \in DOMAIN F : g # h => F[g] \cap F[h] = {}
    /\ \A g \in DOMAIN F : \A c \in F[g] :
         c \in Present /\ Generation(c) = g

C24_FrontiersWellFormed ==
    /\ query.pc \in {"join", "lower", "done"} =>
         \A F \in query.frontier : WellFormed(F)
    /\ query.pc \in {"stream", "stream_end"} =>
         WellFormed(query.heads) /\ WellFormed(query.common)
    /\ query.pc \in {"common_base_loop", "common_base_return"} =>
         /\ WellFormed(query.u_frontier)
         /\ WellFormed(query.v_frontier)
         /\ WellFormed(query.lowered_u_frontier)
         /\ WellFormed(query.lowered_v_frontier)
    /\ query.pc \in {"range_discover", "range_unfold", "range_end"} =>
         WellFormed(query.frontier) /\ WellFormed(query.upwards_frontier)
    /\ query.pc \in {"slice_loop", "slice_return"} =>
         WellFormed(query.frontier)

\* a slicing that has filtered some ids out of a frontier of several buckets
\* and lowered what it kept
C24_Witness ==
    /\ query.pc = "slice_loop"
    /\ query.iterations >= 1
    /\ Cardinality(query.heads) = 2
    /\ query.heads \ query.needed # {}
    /\ changesets(query.frontier) \ query.heads # {}

\* C25: the skip jump never changes the answer of common_base: for every
\* graph, every u and v and every assignment of skew ancestors of strictly
\* lower generation, it returns the list returned by the loop that never
\* jumps and only lowers the highest generation of the u frontier
RECURSIVE common_base_never_jump(_, _)
common_base_never_jump(u_frontier, v_frontier) ==
    IF is_empty(u_frontier) THEN <<>>
    ELSE
      LET u_gen == last_key(u_frontier)
          v_low == lower_frontier(v_frontier, u_gen)
          intersection == highest_generation_intersection(u_frontier, v_low)
      IN IF intersection # {} THEN sort(intersection)
         ELSE common_base_never_jump(
                lower_frontier_highest_generation(u_frontier), v_low)

C25_JumpKeepsAnswer ==
    res.op = "common_base_skew" =>
        res.vals = {common_base_never_jump(single_frontier(res.u),
                                           single_frontier(res.v))}

\* the first iteration jumps, to the generation of a changeset that is not
\* an ancestor of u, past a generation the slow step would have visited
C25_Witness ==
    /\ res.op = "common_base_skew"
    /\ res.v \notin Ancestors(res.u) /\ res.u \notin Ancestors(res.v)
    /\ \E a \in res.skew_of[res.u] :
         /\ a.cs_id \notin Ancestors(res.u)
         /\ a.generation + 2 <= Generation(res.u)
         /\ is_disjoint(lower_frontier(single_frontier(res.u), a.generation),
                        lower_frontier(single_frontier(res.v), a.generation))

\* C26: every id of a slice belongs to the set needs_processing returned in
\* the iteration that pushed the slice; the iteration in which
\* needs_processing keeps no changeset of the frontier pushes nothing and
\* ends the slicing, and if it is the first iteration the result is empty
C26_SliceStep ==
    (/\ query.pc = "slice_loop" /\ query' # query
     /\ query'.pc \in {"slice_loop", "slice_return"}) =>
        LET keeps_none ==
              changesets(query.frontier) \cap query'.needed_cs_ids = {}
            n == Len(query.slices)
        IN /\ query'.needed_cs_ids \subseteq query.needed
           /\ keeps_none =>
                /\ query'.pc = "slice_return"
                /\ query'.slices = query.slices
                /\ query'.val = reversed(query.slices)
                /\ query.iterations = 0 => query'.val = <<>>
           /\ ~keeps_none =>
                /\ Len(query'.slices) = n + 1
                /\ SubSeq(query'.slices, 1, n) = query.slices
                /\ query'.slices[n + 1].ids \subseteq query'.needed_cs_ids
           /\ query'.pc = "slice_return" =>
                /\ query'.val = reversed(query'.slices)
                /\ \A i \in 1..Len(query'.val) :
                     query'.val[i].ids \subseteq query.needed

C26_SlicesHoldNeededIds == [][C26_SliceStep]_vars

\* slices were pushed from a frontier that held an id not needed, and the
\* slicing ended in an iteration that kept nothing
C26_Witness ==
    /\ query.pc = "slice_return" /\ ~query.err
    /\ Len(query.val) >= 1
    /\ query.iterations = Len(query.slices) + 1
    /\ query.heads \ query.needed # {}
    /\ query.slice_start >= 1

\* C27: when the ancestor and the descendant are both stored at the start of
\* is_ancestor, the call returns the value the graph had at its start,
\* whatever add calls run between its Storage reads
C27_ValueOfGraphAtStart ==
    (query.pc = "done" /\ query.at_start.present) =>
        /\ ~query.err
        /\ query.val = query.at_start.val

\* the call lowered the descendant's frontier to the ancestor while a child
\* of the descendant was added, with an add still in flight
C27_Witness ==
    /\ query.pc = "done" /\ query.at_start.present /\ query.val
    /\ query.ancestor # query.descendant
    /\ adding # <<>>
    /\ \E c \in Present :
         /\ c > query.at_start.stored
         /\ query.descendant \in ParentIds(c)

\* C28: common_base terminates: every iteration of its loop returns or
\* strictly lowers the highest generation of the u frontier, on the jump as
\* on the slow step, so the loop runs at most generation(u) times
C28_Lowers ==
    (/\ query.pc = "common_base_loop" /\ query' # query
     /\ query'.pc = "common_base_loop") =>
        /\ ~is_empty(query.u_frontier)
        /\ \/ is_empty(query'.u_frontier)
           \/ last_key(query'.u_frontier) < last_key(query.u_frontier)

C28_OriginalStep ==
    /\ C28_Lowers
    /\ (/\ query.pc = "common_base_loop" /\ query' # query
        /\ query'.pc \in {"common_base_loop", "common_base_return"}) =>
           query'.iterations <= Generation(query.u)

C28_AtMostGenerationIterations == [][C28_OriginalStep]_vars

\* as amended: the iterations that lower the u frontier are at most
\* generation(u), and one more iteration may be needed to find the frontier
\* empty and return, so the loop runs at most generation(u) + 1 times
C28_AmendedStep ==
    /\ C28_Lowers
    /\ (/\ query.pc = "common_base_loop" /\ query' # query
        /\ query'.pc \in {"common_base_loop", "common_base_return"}) =>
           /\ query'.iterations = query.iterations + 1
           /\ query'.iterations <= Generation(query.u) + 1
           /\ query'.pc = "common_base_loop" =>
                /\ query'.iterations <= Generation(query.u)
                /\ ~is_empty(query'.u_frontier) =>
                     query'.iterations + last_key(query'.u_frontier)
                        <= Generation(query.u)

C28_CommonBaseTerminates ==
    /\ [][C28_AmendedStep]_vars
    /\ (query.pc = "common_base_loop") ~> (query.pc # "common_base_loop")

\* the loop has run generation(u) + 1 times: it lowered the u frontier of a
\* changeset of generation 2 or more until it was empty, then returned
C28_Witness ==
    /\ query.pc = "common_base_return" /\ ~query.err
    /\ Generation(query.u) >= 2
    /\ query.iterations = Generation(query.u) + 1
    /\ query.val = <<>>

\* C29: common_base is symmetric: for stored u and v, common_base(u, v)
\* returns the list common_base(v, u) returns, and common_base(u, u) = [u]
C29_CommonBaseSymmetric ==
    (res.op = "common_base" /\ ~res.err) =>
        /\ \A r \in common_base(res.v, res.u) :
             ~r.err /\ r.val = res.val
        /\ res.u = res.v => res.val = <<res.u>>

\* u and v are of different generations, neither an ancestor of the other,
\* the deeper one has a skew ancestor, and they have a common ancestor
C29_Witness ==
    /\ res.op = "common_base" /\ ~res.err
    /\ res.u \notin Ancestors(res.v) /\ res.v \notin Ancestors(res.u)
    /\ Generation(res.u) > Generation(res.v)
    /\ storage[res.u].skip_tree_skew_ancestor # {}
    /\ Len(res.val) >= 1

\* C30: in slice_ancestors with slice_size S >= 1, slice_start is always
\* 1 + k * S for some k >= 0, and at first slice_start <= max_gen <
\* slice_start + S; slice_start -= S is executed only when slice_start >=
\* S + 1, so it never goes below 1, and the loop ends after at most k + 1
\* iterations, k being that of the first slice_start
C30_SliceStartStep ==
    (query'.pc \in {"slice_loop", "slice_return"} /\ ~query'.err
     /\ query'.max_gen >= 1 /\ query' # query) =>
        LET S == query'.slice_size
            k == (query'.max_gen - 1) \div S
        IN /\ S >= 1
           /\ \E j \in 0..MaxNodes : query'.slice_start = 1 + j * S
           /\ query.pc = "idle" =>
                /\ query'.slice_start <= query'.max_gen
                /\ query'.max_gen < query'.slice_start + S
                /\ query'.slice_start = 1 + k * S
           /\ query.pc = "slice_loop" =>
                /\ query'.iterations = query.iterations + 1
                /\ query'.iterations <= k + 1
                /\ query'.slice_start # query.slice_start =>
                     /\ query.slice_start >= S + 1
                     /\ query'.slice_start = query.slice_start - S
                     /\ query'.slice_start >= 1

C30_SliceStartStaysAligned == [][C30_SliceStartStep]_vars

\* the slicing started at 3 for a highest generation of 4 and a slice size
\* of 2, subtracted once, and ended after 2 iterations
C30_Witness ==
    /\ query.pc = "slice_return" /\ ~query.err
    /\ query.slice_size = 2 /\ query.max_gen = 4
    /\ query.slice_start = 1
    /\ query.iterations = 2
    /\ Len(query.val) = 2

\* the caller takes the result; the query's frontiers are dropped
Complete ==
    /\ res.op # "none"
    /\ res' = [op |-> "none"]
    /\ UNCHANGED <<storage, inflight, errors>>

Init ==
    /\ storage = <<>>
    /\ res = [op |-> "none"]
    /\ adding = <<>>
    /\ added = {}
    /\ query = [pc |-> "idle"]
    /\ errors = <<>>

Next ==
    \/ Add
    \/ IsAncestor
    \/ AncestorsFrontierWith
    \/ AncestorsDifferenceStreamWith
    \/ RangeStream
    \/ CommonBase
    \/ SliceAncestors
    \/ Exists
    \/ ChangesetParents
    \/ ChangesetGeneration
    \/ AddFetch
    \/ AddStore
    \/ IsAncestorStart
    \/ IsAncestorReadDescendant
    \/ IsAncestorReadAncestor
    \/ IsAncestorLowerWave
    \/ IsAncestorReturn
    \/ ChangesetChildren
    \/ DifferenceStreamStart
    \/ DifferenceStreamNext
    \/ DifferenceStreamReturn
    \/ Drop
    \/ Blank
    \/ Message
    \/ SourceError
    \/ SourceIoError
    \/ MarkCorruption
    \/ DropError
    \/ LowerFrontier
    \/ CommonBaseSkew
    \/ CommonBaseStart
    \/ CommonBaseIterate
    \/ CommonBaseReturn
    \/ SliceAncestorsStart
    \/ SliceAncestorsIterate
    \/ SliceAncestorsReturn
    \/ RangeStreamStart
    \/ RangeStreamDiscover
    \/ RangeStreamNext
    \/ RangeStreamReturn
    \/ Complete

Spec == Init /\ [][Next]_vars

\* the graph under add alone, and under add with one kind of query
NextAdd == Add \/ Complete

SpecAdd == Init /\ [][NextAdd]_vars

NextIsAncestor == Add \/ IsAncestor \/ Complete

SpecIsAncestor == Init /\ [][NextIsAncestor]_vars

NextAncestorsFrontier == Add \/ AncestorsFrontierWith \/ Complete

SpecAncestorsFrontier == Init /\ [][NextAncestorsFrontier]_vars

NextAncestorsDifference == Add \/ AncestorsDifferenceStreamWith \/ Complete

SpecAncestorsDifference == Init /\ [][NextAncestorsDifference]_vars

NextRangeStream == Add \/ RangeStream \/ Complete

SpecRangeStream == Init /\ [][NextRangeStream]_vars

NextCommonBase == Add \/ CommonBase \/ Complete

SpecCommonBase == Init /\ [][NextCommonBase]_vars

NextSliceAncestors == Add \/ SliceAncestors \/ Complete

SpecSliceAncestors == Init /\ [][NextSliceAncestors]_vars

\* the graph under add with the three queries that take a list of heads
NextHeadsRequired ==
    \/ Add
    \/ AncestorsFrontierWith
    \/ AncestorsDifferenceStreamWith
    \/ SliceAncestors
    \/ Complete

SpecHeadsRequired == Init /\ [][NextHeadsRequired]_vars

\* add calls and reads interleaved at their Storage calls
NextInFlight ==
    \/ AddFetch
    \/ AddStore
    \/ Exists
    \/ ChangesetParents
    \/ ChangesetGeneration
    \/ IsAncestorStart
    \/ IsAncestorReadDescendant
    \/ IsAncestorReadAncestor
    \/ IsAncestorLowerWave
    \/ IsAncestorReturn
    \/ Complete

SpecInFlight == Init /\ [][NextInFlight]_vars

\* add with every query, the traversals also step by step and dropped
NextFrame ==
    \/ Add
    \/ Exists
    \/ ChangesetParents
    \/ ChangesetGeneration
    \/ ChangesetChildren
    \/ IsAncestor
    \/ AncestorsFrontierWith
    \/ AncestorsDifferenceStreamWith
    \/ RangeStream
    \/ CommonBase
    \/ SliceAncestors
    \/ IsAncestorStart
    \/ IsAncestorReadDescendant
    \/ IsAncestorReadAncestor
    \/ IsAncestorLowerWave
    \/ IsAncestorReturn
    \/ DifferenceStreamStart
    \/ DifferenceStreamNext
    \/ DifferenceStreamReturn
    \/ Drop
    \/ Complete

SpecFrame == Init /\ [][NextFrame]_vars

\* the Error values of indexedlog under their operations
NextErrors ==
    \/ Blank
    \/ Message
    \/ SourceError
    \/ SourceIoError
    \/ MarkCorruption
    \/ DropError

SpecErrors == Init /\ [][NextErrors]_vars

\* the graph under add with frontiers lowered to a generation
NextLowerFrontier == Add \/ LowerFrontier \/ Complete

SpecLowerFrontier == Init /\ [][NextLowerFrontier]_vars

\* the graph under add with the queries that keep a frontier, each taken one
\* step at a time
NextFrontiers ==
    \/ Add
    \/ IsAncestorStart
    \/ IsAncestorReadDescendant
    \/ IsAncestorReadAncestor
    \/ IsAncestorLowerWave
    \/ IsAncestorReturn
    \/ DifferenceStreamStart
    \/ DifferenceStreamNext
    \/ DifferenceStreamReturn
    \/ CommonBaseStart
    \/ CommonBaseIterate
    \/ CommonBaseReturn
    \/ SliceAncestorsStart
    \/ SliceAncestorsIterate
    \/ SliceAncestorsReturn
    \/ RangeStreamStart
    \/ RangeStreamDiscover
    \/ RangeStreamNext
    \/ RangeStreamReturn
    \/ Complete

SpecFrontiers == Init /\ [][NextFrontiers]_vars

NextCommonBaseSteps ==
    \/ Add
    \/ CommonBaseStart
    \/ CommonBaseIterate
    \/ CommonBaseReturn
    \/ Complete

SpecCommonBaseSteps == Init /\ [][NextCommonBaseSteps]_vars

\* the caller awaits the future of common_base, so a loop that can run an
\* iteration does run it; the graph is kept to MaxAwaitedNodes changesets
NextCommonBaseAwaited ==
    \/ Cardinality(Present) < MaxAwaitedNodes /\ Add
    \/ CommonBaseStart
    \/ CommonBaseIterate
    \/ CommonBaseReturn
    \/ Complete

SpecCommonBaseAwaited ==
    Init /\ [][NextCommonBaseAwaited]_vars /\ WF_vars(CommonBaseIterate)

NextSliceAncestorsSteps ==
    \/ Add
    \/ SliceAncestorsStart
    \/ SliceAncestorsIterate
    \/ SliceAncestorsReturn
    \/ Complete

SpecSliceAncestorsSteps == Init /\ [][NextSliceAncestorsSteps]_vars

\* the graph under add with common_base under every assignment of skew
\* ancestors
NextCommonBaseSkew == Add \/ CommonBaseSkew \/ Complete

SpecCommonBaseSkew == Init /\ [][NextCommonBaseSkew]_vars

====
